---- MODULE Spec2Model ----
(***************************************************************************)
(* A model of the f1-simulator strategy view and of the strategy engine    *)
(* it talks to.                                                            *)
(*                                                                         *)
(*  - StintPlanner / StrategyView (frontend/src/components/strategy/       *)
(*    StintPlanner.tsx) and ResultsSummary.tsx are translated from the     *)
(*    TypeScript source.                                                   *)
(*  - RaceSimulator and StrategyRecommender run behind POST /api/simulate; *)
(*    their code is not among the source files, so they are modelled from  *)
(*    sections 4.5 and 4.7 of the specification.                           *)
(*                                                                         *)
(* A value of type `T | null` (or `number | ''`) is modelled as a sequence *)
(* of length at most one: << >> is null (or ''), <<x>> is the value x.     *)
(* Times are integers (hundredths of a second).                            *)
(***************************************************************************)
EXTENDS Integers, Sequences, FiniteSets, TLC

VARIABLES
    \* ---- StrategyView reducer state (StintPlanner.tsx:100-109) ----
    selectedDriver,   \* string, "" when none is chosen
    raceData,         \* RaceData | null
    stints,           \* StintInput[]
    simulation,       \* SimulateResponse | null
    loading,          \* boolean
    simulating,       \* boolean
    error,            \* the error banner
    \* ---- promises in flight ----
    loadRequests,     \* pending Promise.all of handleLoadRaceData
    simRequests,      \* pending postSimulate calls, in the order sent
    \* ---- bookkeeping of the model ----
    op,               \* the handler that took the last step
    edits,            \* number of planner edits made so far
    \* ---- RaceSimulator: the inputs of the running call ----
    stint_plan,       \* ordered sequence of {compound, laps}
    models,           \* compound -> {base_time, deg_rate}
    \* ---- RaceSimulator: state machine of section 4.5 ----
    phase,            \* "idle" | "running" | "done"
    lap,              \* laps simulated so far
    current_compound,
    tyre_age,
    cumulative_time,
    simulated_laps,   \* the laps emitted so far
    user_total_time,  \* the returned total, set when the call returns
    \* ---- bookkeeping of the model ----
    prevRun,          \* inputs and output of the previous call, or null
    \* ---- stint list <-> pit-lap boundaries ----
    rtStints,         \* the StintInput[] handed to ResultsSummary
    rtTotal,          \* the race length
    rtStops,          \* userStops, or null before it is computed
    rtBack,           \* the stint list rebuilt from userStops, or null
    \* ---- StrategyRecommender, section 4.7 ----
    recPlan,          \* the plan of the simulate call
    recModels,        \* compound -> {base_time, deg_rate}
    recActual,        \* the actual result's total time, or null
    recPhase,         \* "idle" | "enumerating" | "ranking" | "done"
    recPits,          \* pit-stop counts enumerated so far
    recCandidates,    \* the candidates run through the simulator so far
    suggested_strategies, \* SimulateResponse.suggested_strategies
    \* ---- ComparisonEngine, section 4.6 ----
    cmpPhase,         \* "idle" | "running" | "done"
    cmpSim,           \* the simulated lap times, lap 1 first
    cmpActual,        \* the actual lap times, lap 1 first, or null
    cumulative_gap,   \* SimulateResponse.cumulative_gap
    \* ---- DegradationModelBuilder, section 4.1, and DegradationChart ----
    degPhase,         \* "idle" | "bucketing" | "fitting" | "fitted" | "drawn"
    degLaps,          \* compound -> the clean laps of the request
    degLines,         \* compound -> the line its laps were generated on
    degCompounds,     \* DegradationResponse.compounds
    degModels,        \* DegradationResponse.models, null where not fitted
    degInsufficient,  \* the compounds flagged "insufficient data"
    chartDrawn,       \* the elements DegradationChart appended to the svg
    \* ---- ActualStrategyExtractor, section 4.4 ----
    extPhase,         \* "idle" | "running" | "done" | "not_found"
    extLaps,          \* the driver's lap records, in lap order
    extNext,          \* index of the next lap record to place
    extStints,        \* ActualStrategy.stints
    extPitLaps,       \* ActualStrategy.pit_laps
    extLapTimes,      \* ActualStrategy.lap_times
    extTotalTime,     \* ActualStrategy.total_time
    \* ---- ResultsSummary and CumulativeGapChart ----
    shown,            \* the simulation prop of the results, or null
    summary,          \* the texts ResultsSummary renders, or null
    gapSvg,           \* the series drawn in the svg of CumulativeGapChart
    \* ---- StintPlanner on the JavaScript heap ----
    arrays,           \* array reference -> the references it holds
    objects,          \* object reference -> the stint object
    propStints,       \* the array state.stints refers to
    planOp,           \* the planner handler that ran last
    planOps,          \* number of planner handlers run so far
    \* ---- SessionProvider and the drivers effect of StrategyView ----
    year,             \* the selected year
    race,             \* the selected race name, "" before one is set
    races,            \* the race list held
    racesFrom,        \* the year whose response set races, 0 before
    loadingRaces,     \* boolean
    raceFetches,      \* pending fetchRaces promises with their closures
    drivers,          \* state.drivers of StrategyView
    driverFetches,    \* pending fetchDrivers promises of StrategyView
    sessOp,           \* the callback that took the last step
    selections,       \* number of year and race selections made so far
    \* ---- TelemetryView ----
    context,          \* year, race and session handed down by useSession()
    tvDrivers,        \* drivers of TelemetryView, as codes
    selectedDrivers,  \* the codes selected, in order of selection
    telemetry,        \* TelemetryResponse | null
    tvLoading,        \* loading of TelemetryView
    loadingDrivers,   \* boolean
    tvError,          \* error of TelemetryView
    tvDriverFetches,  \* pending fetchDrivers promises with their closures
    telemetryFetches, \* pending fetchTelemetry promises with their closures
    tvOp,             \* the callback that took the last step
    tvOps             \* number of selections and toggles made so far

uiVars == <<selectedDriver, raceData, stints, simulation, loading, simulating,
            error, loadRequests, simRequests, op, edits>>

simVars == <<stint_plan, models, phase, lap, current_compound, tyre_age,
             cumulative_time, simulated_laps, user_total_time, prevRun>>

rtVars == <<rtStints, rtTotal, rtStops, rtBack>>

recVars == <<recPlan, recModels, recActual, recPhase, recPits, recCandidates,
             suggested_strategies>>

cmpVars == <<cmpPhase, cmpSim, cmpActual, cumulative_gap>>

degVars == <<degPhase, degLaps, degLines, degCompounds, degModels,
             degInsufficient, chartDrawn>>

extVars == <<extPhase, extLaps, extNext, extStints, extPitLaps, extLapTimes,
             extTotalTime>>

sumVars == <<shown, summary, gapSvg>>

planVars == <<arrays, objects, propStints, planOp, planOps>>

sessVars == <<year, race, races, racesFrom, loadingRaces, raceFetches, drivers,
              driverFetches, sessOp, selections>>

telVars == <<context, tvDrivers, selectedDrivers, telemetry, tvLoading,
             loadingDrivers, tvError, tvDriverFetches, telemetryFetches,
             tvOp, tvOps>>

\* the variables outside each component
nonUiVars == <<simVars, rtVars, recVars, cmpVars, degVars, extVars, sumVars,
               planVars, sessVars, telVars>>
nonSimVars == <<uiVars, rtVars, recVars, cmpVars, degVars, extVars, sumVars,
                planVars, sessVars, telVars>>
nonRtVars == <<uiVars, simVars, recVars, cmpVars, degVars, extVars, sumVars,
               planVars, sessVars, telVars>>
nonRecVars == <<uiVars, simVars, rtVars, cmpVars, degVars, extVars, sumVars,
                planVars, sessVars, telVars>>
nonCmpVars == <<uiVars, simVars, rtVars, recVars, degVars, extVars, sumVars,
                planVars, sessVars, telVars>>
nonDegVars == <<uiVars, simVars, rtVars, recVars, cmpVars, extVars, sumVars,
                planVars, sessVars, telVars>>
nonExtVars == <<uiVars, simVars, rtVars, recVars, cmpVars, degVars, sumVars,
                planVars, sessVars, telVars>>
nonSumVars == <<uiVars, simVars, rtVars, recVars, cmpVars, degVars, extVars,
                planVars, sessVars, telVars>>
nonPlanVars == <<uiVars, simVars, rtVars, recVars, cmpVars, degVars, extVars,
                 sumVars, sessVars, telVars>>
nonSessVars == <<uiVars, simVars, rtVars, recVars, cmpVars, degVars, extVars,
                 sumVars, planVars, telVars>>
nonTelVars == <<uiVars, simVars, rtVars, recVars, cmpVars, degVars, extVars,
                sumVars, planVars, sessVars>>

\* the variables outside StrategyView and the session
nonUiSessVars == <<simVars, rtVars, recVars, cmpVars, degVars, extVars,
                   sumVars, planVars, telVars>>

vars == <<uiVars, simVars, rtVars, recVars, cmpVars, degVars,
         extVars, sumVars, planVars, sessVars, telVars>>

----------------------------------------------------------------------------
(* Bounds of the model *)

\* planner edits (add, remove, set compound, set laps) explored per behaviour
MaxEdits == 2
\* lap count of the races whose actual strategy is known
RaceLaps == 2
\* simulate calls that may be pending at once when handlers are called directly
MaxPending == 1
\* race length of the small simulator runs
SimTotalLaps == 5
\* most stints of a plan handed to the simulator in the small runs
SimMaxStints == 3
\* race length and most stints of the lists converted to pit stops and back
RtLaps == 3
RtMaxStints == 3
\* longest race the recommender is run on
RecMaxLaps == 10
\* longest lap-time series compared
CmpMaxLaps == 3

\* significant bits of a floating-point number of the degradation builder
MantissaBits == 8

\* tyre ages of the synthetic clean laps
DegMaxAge == 3

\* laps of the driver whose actual strategy is extracted
ExtMaxLaps == 4

\* year and race selections made per behaviour
MaxSelections == 3

\* planner handlers run per behaviour
PlanOps == 4

\* context changes and driver toggles made per behaviour
MaxTelemetryOps == 3

\* most points of a cumulative-gap series shown
MaxGapPoints == 3

----------------------------------------------------------------------------
(* Program constants *)

MAX_STINTS == 5
\* totalLaps when the actual strategy is null: actual?.total_laps ?? 57
DefaultTotalLaps == 57

COMPOUND_OPTIONS == {"SOFT", "MEDIUM", "HARD"}

\* PitLossStats.avg of the worked example (22 s)
PitLossAvg == 2200

Null == << >>
Some(x) == <<x>>

\* laps: number | ''
Blank == << >>
\* the lap counts a user types: small ones around the race length, and 57
MaxLapInput == RaceLaps + 1
LapInputs == {Blank} \cup {<<n>> : n \in (-1 .. MaxLapInput) \cup {DefaultTotalLaps}}

Drivers == {"VER"}

initialStints == << [compound |-> "MEDIUM", laps |-> Blank],
                    [compound |-> "HARD",   laps |-> Blank] >>

----------------------------------------------------------------------------
(* Error banner texts *)

Err(m, p, t) == [msg |-> m, planned |-> p, total |-> t]
NoError == Err("", 0, 0)
ErrSelectDriver == Err("Please select a driver.", 0, 0)
ErrTotalLaps(p, t) == Err("Total laps must equal race distance.", p, t)
ErrCompounds == Err("Must use at least 2 different tire compounds.", 0, 0)
ErrRequest == Err("e.message", 0, 0)

----------------------------------------------------------------------------
(* Pure helpers of StrategyView *)

\* Number(s.laps): Number('') is 0
Number(laps) == IF laps = Blank THEN 0 ELSE laps[1]

\* Number(s.laps) || 0
NumberOrZero(laps) == IF Number(laps) = 0 THEN 0 ELSE Number(laps)

RECURSIVE SumLaps(_, _)
SumLaps(ss, i) == IF i = 0 THEN 0 ELSE SumLaps(ss, i - 1) + NumberOrZero(ss[i].laps)

\* state.stints.reduce((sum, s) => sum + (Number(s.laps) || 0), 0)
TotalPlanned(ss) == SumLaps(ss, Len(ss))

\* new Set(state.stints.map((s) => s.compound))
UniqueCompounds(ss) == {ss[i].compound : i \in 1 .. Len(ss)}

\* state.stints.map((s) => ({ compound: s.compound, laps: Number(s.laps) }))
ValidStints(ss) == [i \in 1 .. Len(ss) |->
                       [compound |-> ss[i].compound, laps |-> Number(ss[i].laps)]]

LapsMismatchLess(ss, total) == TotalPlanned(ss) < total
\* if (totalPlanned !== state.raceData.totalLaps)
LapsMismatch(ss, total) == TotalPlanned(ss) # total

TooFewCompoundsEmpty(ss) == Cardinality(UniqueCompounds(ss)) < 1
\* if (uniqueCompounds.size < 2)
TooFewCompounds(ss) == Cardinality(UniqueCompounds(ss)) < 2

----------------------------------------------------------------------------
(* StintPlanner: every edit goes through onChange = handleStintsChange,    *)
(* which dispatches SET_STINTS and then RESET_SIM.                         *)

handleStintsChange(next) ==
    /\ stints' = next
    /\ simulation' = Null

\* The planner is rendered only when raceData && !state.loading
PlannerShown == raceData # Null /\ ~loading

updateStintLaps(i, value) ==
    [stints EXCEPT ![i] = [compound |-> stints[i].compound, laps |-> value]]

updateStintCompound(i, value) ==
    [stints EXCEPT ![i] = [compound |-> value, laps |-> stints[i].laps]]

UpdateLaps ==
    /\ PlannerShown
    /\ edits < MaxEdits
    /\ \E i \in 1 .. Len(stints), v \in LapInputs :
          handleStintsChange(updateStintLaps(i, v))
    /\ edits' = edits + 1
    /\ op' = "updateStint"
    /\ UNCHANGED <<selectedDriver, raceData, loading, simulating, error,
                   loadRequests, simRequests>>
    /\ UNCHANGED nonUiVars

UpdateCompound ==
    /\ PlannerShown
    /\ edits < MaxEdits
    /\ \E i \in 1 .. Len(stints), c \in COMPOUND_OPTIONS :
          handleStintsChange(updateStintCompound(i, c))
    /\ edits' = edits + 1
    /\ op' = "updateStint"
    /\ UNCHANGED <<selectedDriver, raceData, loading, simulating, error,
                   loadRequests, simRequests>>
    /\ UNCHANGED nonUiVars

\* addStint: the button is disabled, and the handler returns, at MAX_STINTS
addStint ==
    /\ PlannerShown
    /\ edits < MaxEdits
    /\ Len(stints) < MAX_STINTS
    /\ handleStintsChange(Append(stints, [compound |-> "HARD", laps |-> Blank]))
    /\ edits' = edits + 1
    /\ op' = "addStint"
    /\ UNCHANGED <<selectedDriver, raceData, loading, simulating, error,
                   loadRequests, simRequests>>
    /\ UNCHANGED nonUiVars

\* removeStint: the button is disabled, and the handler returns, at 2 stints
removeStint ==
    /\ PlannerShown
    /\ edits < MaxEdits
    /\ Len(stints) > 2
    /\ handleStintsChange(SubSeq(stints, 1, Len(stints) - 1))
    /\ edits' = edits + 1
    /\ op' = "removeStint"
    /\ UNCHANGED <<selectedDriver, raceData, loading, simulating, error,
                   loadRequests, simRequests>>
    /\ UNCHANGED nonUiVars

----------------------------------------------------------------------------
(* StrategyView: driver selection and Load Race Data *)

SetDriver ==
    /\ \E d \in Drivers \cup {""} :
          /\ d # selectedDriver
          /\ selectedDriver' = d
    /\ op' = "SET_DRIVER"
    /\ UNCHANGED <<raceData, stints, simulation, loading, simulating, error,
                   loadRequests, simRequests, edits>>
    /\ UNCHANGED nonUiVars

\* disabled={state.loading || !state.selectedDriver}
LoadEnabled == ~loading /\ selectedDriver # ""

\* handleLoadRaceData up to its await
handleLoadRaceData ==
    /\ IF selectedDriver = ""
          THEN /\ error' = ErrSelectDriver
               /\ UNCHANGED <<loading, loadRequests>>
          ELSE /\ loading' = TRUE
               /\ error' = NoError
               /\ loadRequests' = Append(loadRequests, [driver |-> selectedDriver])
    /\ op' = "handleLoadRaceData"
    /\ UNCHANGED <<selectedDriver, raceData, stints, simulation, simulating,
                   simRequests, edits>>
    /\ UNCHANGED nonUiVars

ClickLoadRaceData == LoadEnabled /\ handleLoadRaceData

\* what GET /degradation answers for the race: its real lap count
DegradationResponses == {[total_laps |-> RaceLaps]}

\* what GET /pit-stats answers: the stats, or null when the session has no
\* pit events
PitStatsResponses ==
    {Null, Some([avg_pit_time |-> PitLossAvg, num_stops |-> 1])}

\* what GET /actual-strategy answers for a driver it knows
ActualResponses == {[total_laps |-> RaceLaps]}

\* Promise.all resolved: fetchDegradation and fetchPitStats succeeded;
\* fetchActualStrategy either succeeded or failed and was caught to null.
\* loadedFor is bookkeeping of the model, not a field of RaceData: the
\* selection the three fetches were made for.
LoadResolved ==
    /\ loadRequests # << >>
    /\ \E degradation \in DegradationResponses, pitStats \in PitStatsResponses,
          actual \in {Null} \cup {Some(a) : a \in ActualResponses} :
          LET totalLaps == IF actual = Null THEN DefaultTotalLaps
                                            ELSE actual[1].total_laps
          IN  /\ raceData' = Some([degradation |-> degradation,
                                   pitStats |-> pitStats,
                                   actual |-> actual,
                                   totalLaps |-> totalLaps,
                                   loadedFor |-> Head(loadRequests)])
              /\ simulation' = Null
    /\ loading' = FALSE
    /\ loadRequests' = Tail(loadRequests)
    /\ op' = "SET_RACE_DATA"
    /\ UNCHANGED <<selectedDriver, stints, simulating, error, simRequests, edits>>
    /\ UNCHANGED nonUiVars

\* Promise.all rejected: fetchDegradation or fetchPitStats failed (or both);
\* whatever the other fetches answered is dropped
LoadRejected ==
    /\ loadRequests # << >>
    /\ \E failed \in {"fetchDegradation failed", "fetchPitStats failed",
                       "loadFailed"} : op' = failed
    /\ error' = ErrRequest
    /\ loading' = FALSE
    /\ loadRequests' = Tail(loadRequests)
    /\ UNCHANGED <<selectedDriver, raceData, stints, simulation, simulating,
                   simRequests, edits>>
    /\ UNCHANGED nonUiVars

\* The summary above the planner renders
\* raceData.pitStats.avg_pit_time.toFixed(1): with null pit stats the render
\* throws, and with no error boundary above it React unmounts the view
ViewCrashed == PlannerShown /\ raceData[1].pitStats = Null

----------------------------------------------------------------------------
(* StrategyView: Simulate *)

\* handleSimulate up to its await
handleSimulate ==
    /\ raceData # Null
    /\ LET total == raceData[1].totalLaps IN
       IF LapsMismatch(stints, total)
          THEN /\ error' = ErrTotalLaps(TotalPlanned(stints), total)
               /\ UNCHANGED <<simulating, simRequests>>
          ELSE IF TooFewCompounds(stints)
          THEN /\ error' = ErrCompounds
               /\ UNCHANGED <<simulating, simRequests>>
          ELSE /\ simulating' = TRUE
               /\ error' = NoError
               /\ simRequests' = Append(simRequests,
                     [driver |-> selectedDriver, stints |-> ValidStints(stints)])
    /\ op' = "handleSimulate"
    /\ UNCHANGED <<selectedDriver, raceData, stints, simulation, loading,
                   loadRequests, edits>>
    /\ UNCHANGED nonUiVars

\* a Simulate button that stays enabled while a request is in flight
SimulateEnabledWhileSimulating ==
    /\ PlannerShown
    /\ TotalPlanned(stints) = raceData[1].totalLaps

\* The button is rendered with the planner and is
\* disabled={state.simulating || totalPlanned !== raceData.totalLaps}
SimulateEnabled ==
    /\ PlannerShown
    /\ ~simulating
    /\ TotalPlanned(stints) = raceData[1].totalLaps

ClickSimulate == SimulateEnabled /\ handleSimulate

\* postSimulate resolved: SET_SIMULATION, then finally SET_SIMULATING false
SimulateResolved ==
    /\ simRequests # << >>
    /\ simulation' = Some([stints |-> Head(simRequests).stints,
                           driver |-> Head(simRequests).driver])
    /\ simulating' = FALSE
    /\ simRequests' = Tail(simRequests)
    /\ op' = "SET_SIMULATION"
    /\ UNCHANGED <<selectedDriver, raceData, stints, loading, error,
                   loadRequests, edits>>
    /\ UNCHANGED nonUiVars

\* postSimulate rejected: SET_ERROR, then finally SET_SIMULATING false
SimulateRejected ==
    /\ simRequests # << >>
    /\ error' = ErrRequest
    /\ simulating' = FALSE
    /\ simRequests' = Tail(simRequests)
    /\ op' = "simulateFailed"
    /\ UNCHANGED <<selectedDriver, raceData, stints, simulation, loading,
                   loadRequests, edits>>
    /\ UNCHANGED nonUiVars

----------------------------------------------------------------------------
(* RaceSimulator, section 4.5 of the specification.                        *)
(*                                                                         *)
(*   State: {current_compound, tyre_age, cumulative_time}.                 *)
(*   Initial: first stint's compound, tyre_age = 0.                        *)
(*   For lap 1..total_laps:                                                *)
(*    1. tyre_age += 1; reset to 1 at a stint boundary.                    *)
(*    2. predicted_time = base_time + deg_rate * tyre_age, floored at a    *)
(*       plausible non-negative minimum.                                   *)
(*    3. If this lap is a plan boundary: add PitLossStats.avg, mark        *)
(*       is_pit_lap, switch current_compound, reset tyre_age to 1.         *)
(*    4. cumulative_time += predicted_time; emit the lap.                  *)
(*   Terminal: cumulative_time is the plan's total time.                   *)
(*                                                                         *)
(* The emitted lap carries the compound and tyre age its time was          *)
(* predicted from: the pit lap is the last lap of the old tyre set (the    *)
(* lap-time chart shades laps 1..n1 with the first stint's compound).      *)

\* floor of a predicted lap time (60.00 s)
MIN_LAP_TIME == 6000

Max(a, b) == IF a >= b THEN a ELSE b
Min(a, b) == IF a <= b THEN a ELSE b

RECURSIVE PlanSum(_, _)
\* laps planned in the first i stints
PlanSum(plan, i) == IF i = 0 THEN 0 ELSE PlanSum(plan, i - 1) + plan[i].laps

PlanTotalLaps(plan) == PlanSum(plan, Len(plan))

PlanBoundariesButLast(plan) == {PlanSum(plan, i) : i \in 1 .. Len(plan) - 2}
\* the plan boundaries: the last lap of every stint but the final one
PlanBoundaries(plan) == {PlanSum(plan, i) : i \in 1 .. Len(plan) - 1}

\* the stint that lap n belongs to
StintOfLap(plan, n) ==
    CHOOSE i \in 1 .. Len(plan) : PlanSum(plan, i - 1) < n /\ n <= PlanSum(plan, i)

NextTyreAgeNoReset(plan, n, age) == age + 1
\* step 1: tyre_age += 1; reset to 1 at a stint boundary
NextTyreAge(plan, n, age) == IF (n - 1) \in PlanBoundaries(plan) THEN 1 ELSE age + 1

PredictedTimeUnfloored(m, age) == m.base_time + m.deg_rate * age
\* step 2: the model's prediction, floored
PredictedTime(m, age) == Max(m.base_time + m.deg_rate * age, MIN_LAP_TIME)

PitLossTwice(isPit, pit) == IF isPit THEN 2 * pit ELSE 0
PitLossDropped(isPit, pit) == 0
\* step 3: the pit loss added on a plan boundary
PitLoss(isPit, pit) == IF isPit THEN pit ELSE 0

\* the compounds with a fitted model, and the model sets of the runs
SimCompounds == {"MEDIUM", "HARD"}

Model(b, r) == [base_time |-> b, deg_rate |-> r]

\* the worked example: MEDIUM{92, 0.04}, HARD{93, 0.02}
ExampleModels == [c \in SimCompounds |->
                    IF c = "MEDIUM" THEN Model(9200, 4) ELSE Model(9300, 2)]
\* a track that rubbers in: negative rates, lap times close to the floor
RubberingModels == [c \in SimCompounds |->
                      IF c = "MEDIUM" THEN Model(6010, -4) ELSE Model(6003, -2)]
\* a negative rate far from the floor
MixedModels == [c \in SimCompounds |->
                  IF c = "MEDIUM" THEN Model(9000, -3) ELSE Model(9100, 5)]

\* a rate so negative that the prediction falls below zero within a stint
SteepModels == [c \in SimCompounds |->
                  IF c = "MEDIUM" THEN Model(6100, -3000) ELSE Model(6200, 10)]

ModelChoices == {ExampleModels, RubberingModels, MixedModels, SteepModels}

\* If a compound has no model, substitute the count-weighted average
\* base_time/deg_rate of compounds that do have models.  A compound without a
\* model is one outside the domain of the models; the weights are the sample
\* counts of the compounds' degradation curves.
SampleCounts == [c \in SimCompounds |-> IF c = "MEDIUM" THEN 3 ELSE 1]

RECURSIVE WeightedSum(_, _)
\* the sum over the compounds cs of count * value
WeightedSum(cs, value) ==
    IF cs = {} THEN 0
    ELSE LET c == CHOOSE x \in cs : TRUE
         IN  SampleCounts[c] * value[c] + WeightedSum(cs \ {c}, value)

AverageModel(ms) ==
    LET n == WeightedSum(DOMAIN ms, [c \in DOMAIN ms |-> 1])
    IN  Model(WeightedSum(DOMAIN ms, [c \in DOMAIN ms |-> ms[c].base_time]) \div n,
              WeightedSum(DOMAIN ms, [c \in DOMAIN ms |-> ms[c].deg_rate]) \div n)

\* the model a compound is simulated with
ModelOf(ms, c) == IF c \in DOMAIN ms THEN ms[c] ELSE AverageModel(ms)

\* at least one stint's compound lacks a model
UsesUnmodelled(plan, ms) ==
    \E i \in 1 .. Len(plan) : plan[i].compound \notin DOMAIN ms

\* [MEDIUM 28, HARD 29] over 57 laps
ExamplePlan == << [compound |-> "MEDIUM", laps |-> 28],
                  [compound |-> "HARD",   laps |-> 29] >>

StintSet(total) == [compound : SimCompounds, laps : 1 .. total]

\* plans of 2..SimMaxStints stints of at least one lap each that sum to total
\* and use two compounds
PlansOf(total, maxStints) ==
    UNION { { p \in [1 .. k -> StintSet(total)] :
                /\ PlanTotalLaps(p) = total
                /\ Cardinality({p[i].compound : i \in 1 .. k}) >= 2 }
            : k \in 2 .. maxStints }

\* the plan with stint i split after its first a laps: one more pit stop
SplitStint(plan, i, a) ==
    SubSeq(plan, 1, i - 1)
    \o << [compound |-> plan[i].compound, laps |-> a],
          [compound |-> plan[i].compound, laps |-> plan[i].laps - a] >>
    \o SubSeq(plan, i + 1, Len(plan))

SplitsOf(plan) ==
    { SplitStint(plan, ia[1], ia[2]) :
        ia \in { x \in (1 .. Len(plan)) \X (1 .. PlanTotalLaps(plan)) :
                    x[2] < plan[x[1]].laps } }

\* the plans of the runs: every small plan, and the worked example
\* two-stint plans with a stint on SOFT, which has no model
UnmodelledPlans ==
    { << [compound |-> cs[1], laps |-> a],
         [compound |-> cs[2], laps |-> SimTotalLaps - a] >> :
        cs \in {<<"SOFT", "HARD">>, <<"MEDIUM", "SOFT">>},
        a \in 1 .. SimTotalLaps - 1 }

SimInputs == (PlansOf(SimTotalLaps, SimMaxStints) \X ModelChoices)
             \cup {<<ExamplePlan, ExampleModels>>}
             \cup (UnmodelledPlans \X {MixedModels})

SimStartKeepsTime(plan, ms) ==
    /\ stint_plan' = plan
    /\ models' = ms
    /\ phase' = "running"
    /\ lap' = 0
    /\ current_compound' = plan[1].compound
    /\ tyre_age' = 0
    /\ cumulative_time' = cumulative_time
    /\ simulated_laps' = << >>
    /\ user_total_time' = 0

\* simulate(models, pit_stats, actual, stint_plan): the call starts in the
\* initial state of section 4.5
SimStart(plan, ms) ==
    /\ stint_plan' = plan
    /\ models' = ms
    /\ phase' = "running"
    /\ lap' = 0
    /\ current_compound' = plan[1].compound
    /\ tyre_age' = 0
    /\ cumulative_time' = 0
    /\ simulated_laps' = << >>
    /\ user_total_time' = 0

\* the first call
Simulate ==
    /\ phase = "idle"
    /\ \E in \in SimInputs : SimStart(in[1], in[2])
    /\ prevRun' = Null
    /\ UNCHANGED nonSimVars

\* the second call: the same inputs again, or the previous plan with one more
\* pit stop
SimulateAgain ==
    /\ phase = "done"
    /\ prevRun = Null
    /\ \E plan \in {stint_plan} \cup SplitsOf(stint_plan) : SimStart(plan, models)
    /\ prevRun' = Some([stint_plan |-> stint_plan, models |-> models,
                        simulated_laps |-> simulated_laps,
                        user_total_time |-> user_total_time])
    /\ UNCHANGED nonSimVars

\* one iteration of the lap loop, steps 1 to 4, from state st =
\* [lap, current_compound, tyre_age, cumulative_time]: the next state and the
\* lap emitted
LapStep(plan, ms, st) ==
    LET n         == st.lap + 1
        age       == NextTyreAge(plan, n, st.tyre_age)
        isPit     == n \in PlanBoundaries(plan)
        predicted == PredictedTime(ModelOf(ms, st.current_compound), age)
                     + PitLoss(isPit, PitLossAvg)
    IN  [lap |-> n,
         cumulative_time |-> st.cumulative_time + predicted,
         current_compound |->
             IF isPit THEN plan[StintOfLap(plan, n) + 1].compound
                      ELSE st.current_compound,
         tyre_age |-> IF isPit THEN 1 ELSE age,
         emitted |-> [lap |-> n, time_sec |-> predicted,
                      compound |-> st.current_compound,
                      tyre_life |-> age, is_pit_lap |-> isPit]]

SimulateLap ==
    /\ phase = "running"
    /\ lap < PlanTotalLaps(stint_plan)
    /\ LET next == LapStep(stint_plan, models,
                       [lap |-> lap, current_compound |-> current_compound,
                        tyre_age |-> tyre_age, cumulative_time |-> cumulative_time])
       IN  /\ lap' = next.lap
           /\ cumulative_time' = next.cumulative_time
           /\ simulated_laps' = Append(simulated_laps, next.emitted)
           /\ current_compound' = next.current_compound
           /\ tyre_age' = next.tyre_age
    /\ UNCHANGED <<stint_plan, models, phase, user_total_time, prevRun>>
    /\ UNCHANGED nonSimVars

\* terminal: after the last lap cumulative_time is the plan's total time
SimulateReturn ==
    /\ phase = "running"
    /\ lap = PlanTotalLaps(stint_plan)
    /\ phase' = "done"
    /\ user_total_time' = cumulative_time
    /\ UNCHANGED <<stint_plan, models, lap, current_compound, tyre_age,
                   cumulative_time, simulated_laps, prevRun>>
    /\ UNCHANGED nonSimVars

----------------------------------------------------------------------------
(* ResultsSummary: the user's pit stops, and the stint list they stand for *)

\* the StintPlan invariant of the specification: lap counts sum to the
\* race's total, at least two distinct compounds, each stint at least the
\* minimum length
StintPlanInvariant(ss, total, minLaps) ==
    /\ \A i \in 1 .. Len(ss) : ss[i].laps # Blank /\ ss[i].laps[1] >= minLaps
    /\ TotalPlanned(ss) = total
    /\ Cardinality(UniqueCompounds(ss)) >= 2

\* the planner's lap input has min=1
MinLapInput == 1

userStopsNoAccumulate(ss) ==
    [i \in 1 .. Len(ss) - 1 |->
        [lap |-> NumberOrZero(ss[i].laps),
         from |-> ss[i].compound, to |-> ss[i + 1].compound]]
\* for (i = 0; i < stints.length - 1; i++) { laps = Number(stints[i].laps) || 0;
\*   userStops.push({lap: stintStart + laps, from, to}); stintStart += laps }
userStops(ss) ==
    [i \in 1 .. Len(ss) - 1 |->
        [lap |-> SumLaps(ss, i),
         from |-> ss[i].compound, to |-> ss[i + 1].compound]]

\* the stint list of a list of pit stops and a race length: stint i runs from
\* the stop before it to stop i on the compound stop i leaves, the last stint
\* from the last stop to the end of the race on the compound that stop fits
StintsFromStops(stops, total) ==
    [i \in 1 .. (IF Len(stops) = 0 THEN 0 ELSE Len(stops) + 1) |->
        IF i <= Len(stops)
        THEN [compound |-> stops[i].from,
              laps |-> <<stops[i].lap - (IF i = 1 THEN 0 ELSE stops[i - 1].lap)>>]
        ELSE [compound |-> stops[Len(stops)].to,
              laps |-> <<total - stops[Len(stops)].lap>>]]

\* the stint lists ResultsSummary may be handed
RtStintInputs ==
    UNION { [1 .. k -> [compound : COMPOUND_OPTIONS,
                        laps : {Blank} \cup {<<n>> : n \in 0 .. RtLaps}]]
            : k \in 1 .. RtMaxStints }

\* ResultsSummary is rendered with a stint list
RenderResultsSummary ==
    /\ rtStints = << >>
    /\ \E ss \in RtStintInputs : rtStints' = ss
    /\ rtTotal' = RtLaps
    /\ UNCHANGED <<rtStops, rtBack>>
    /\ UNCHANGED nonRtVars

ComputeUserStops ==
    /\ rtStints # << >>
    /\ rtStops = Null
    /\ rtStops' = Some(userStops(rtStints))
    /\ UNCHANGED <<rtStints, rtTotal, rtBack>>
    /\ UNCHANGED nonRtVars

RebuildStints ==
    /\ rtStops # Null
    /\ rtBack = Null
    /\ rtBack' = Some(StintsFromStops(rtStops[1], rtTotal))
    /\ UNCHANGED <<rtStints, rtTotal, rtStops>>
    /\ UNCHANGED nonRtVars

\* The result of the call as the client receives it: the fields that the
\* interface SimulateResponse declares (actual and stint_analysis are not
\* modelled)
SimulateResponseOf ==
    [simulated_laps |-> simulated_laps,
     user_total_time |-> user_total_time,
     cumulative_gap |-> cumulative_gap,
     suggested_strategies |-> suggested_strategies]

\* what a consumer reads as the degraded-confidence flag of a response: a
\* field the response does not have reads as undefined, which is falsy
DegradedConfidence(response) ==
    /\ "degraded_confidence" \in DOMAIN response
    /\ response.degraded_confidence

----------------------------------------------------------------------------
(* StrategyRecommender, section 4.7 of the specification.                  *)
(*                                                                         *)
(*   Enumerates candidate plans over 1-4 pit stops with boundaries chosen  *)
(*   from a coarse lap grid, filtered to satisfy: every stint >= minimum   *)
(*   length, and >= 2 distinct compounds used.  Each candidate is run      *)
(*   through RaceSimulator; candidates are ranked ascending by total time, *)
(*   de-duplicated by compound sequence, and the top-K distinct shapes are *)
(*   returned.                                                             *)
(*                                                                         *)
(* The race's total lap count is the lap count of the plan of the call.    *)

\* the configured minimum stint length
MIN_STINT_LAPS == 2
\* the coarse lap grid: every GRID_STEP-th lap
GRID_STEP == 2
\* the number of distinct shapes returned
TOP_K == 3
\* candidates have 1..MAX_PIT_STOPS pit stops
MAX_PIT_STOPS == 4

\* heavy wear: short stints pay for their pit stops
HighDegModels == [c \in SimCompounds |->
                    IF c = "MEDIUM" THEN Model(9000, 1000) ELSE Model(9100, 1200)]

RecModelChoices == ModelChoices \cup {HighDegModels}

RECURSIVE SimRun(_, _, _)
\* the lap loop of RaceSimulator run to its terminal state
SimRun(plan, ms, st) ==
    IF st.lap >= PlanTotalLaps(plan) THEN st.cumulative_time
    ELSE SimRun(plan, ms, LapStep(plan, ms, st))

\* the total time RaceSimulator returns for a plan
PlanTime(plan, ms) ==
    SimRun(plan, ms, [lap |-> 0, current_compound |-> plan[1].compound,
                      tyre_age |-> 0, cumulative_time |-> 0])

GridLaps(total) == {n \in 1 .. total - 1 : n % GRID_STEP = 0}

RECURSIVE SortedLaps(_)
\* a set of laps in ascending order
SortedLaps(S) ==
    IF S = {} THEN << >>
    ELSE LET m == CHOOSE x \in S : \A y \in S : x <= y
         IN  <<m>> \o SortedLaps(S \ {m})

\* the plan with pit stops on the laps bs (ascending) and the compounds cs
PlanOfBoundaries(bs, cs, total) ==
    [i \in 1 .. Len(bs) + 1 |->
        [compound |-> cs[i],
         laps |-> (IF i <= Len(bs) THEN bs[i] ELSE total)
                  - (IF i = 1 THEN 0 ELSE bs[i - 1])]]

CandidateAllowedAnyCompounds(plan) ==
    \A i \in 1 .. Len(plan) : plan[i].laps >= MIN_STINT_LAPS
\* the filter: every stint >= minimum length, >= 2 distinct compounds
CandidateAllowed(plan) ==
    /\ \A i \in 1 .. Len(plan) : plan[i].laps >= MIN_STINT_LAPS
    /\ Cardinality({plan[i].compound : i \in 1 .. Len(plan)}) >= 2

\* the candidates with k pit stops, each with its simulated total time
ScoredCandidates(total, k, ms) ==
    LET plans == { PlanOfBoundaries(SortedLaps(B), cs, total) :
                     B \in {X \in SUBSET GridLaps(total) : Cardinality(X) = k},
                     cs \in [1 .. k + 1 -> DOMAIN ms] }
    IN  { [stints |-> p, total_time |-> PlanTime(p, ms)] :
            p \in {q \in plans : CandidateAllowed(q)} }

\* the compound sequence of a candidate
Shape(c) == [i \in 1 .. Len(c.stints) |-> c.stints[i].compound]

FastestAny(S) == CHOOSE x \in S : TRUE
\* the fastest of a set of candidates: the head of the ascending ranking
Fastest(S) == CHOOSE x \in S : \A y \in S : x.total_time <= y.total_time

RECURSIVE RankedShapes(_, _, _)
\* the first k entries of the ranking by ascending total time once it is
\* de-duplicated by compound sequence: each entry is the head of the ranking
\* of the candidates whose shape has not been returned before it
RankedShapes(S, seen, k) ==
    LET rest == {c \in S : Shape(c) \notin seen}
    IN  IF k = 0 \/ rest = {} THEN << >>
        ELSE <<Fastest(rest)>>
             \o RankedShapes(S, seen \cup {Shape(Fastest(rest))}, k - 1)

\* the plans of the simulate calls: two stints over MinLaps..RecMaxLaps laps
RecPlans ==
    UNION { { << [compound |-> "MEDIUM", laps |-> a],
                 [compound |-> "HARD",   laps |-> t - a] >> : a \in 1 .. t - 1 }
            : t \in 2 * MIN_STINT_LAPS .. RecMaxLaps }

\* the actual result of the call: null, or a total time
RecActuals == {Null, Some(16 * MIN_LAP_TIME)}

\* a returned shape with its delta vs. the actual result; the delta is
\* omitted when there is no actual result
Suggestion(c, actual) ==
    [stints |-> c.stints,
     total_time |-> c.total_time,
     delta_vs_actual |-> IF actual = Null THEN Null
                         ELSE Some(c.total_time - actual[1])]

\* a simulate call reaches the recommender
Recommend ==
    /\ recPhase = "idle"
    /\ \E plan \in RecPlans, ms \in RecModelChoices, actual \in RecActuals :
          /\ recPlan' = plan
          /\ recModels' = ms
          /\ recActual' = actual
    /\ recPhase' = "enumerating"
    /\ recPits' = 0
    /\ recCandidates' = {}
    /\ suggested_strategies' = << >>
    /\ UNCHANGED nonRecVars

\* the candidates with one more pit stop are enumerated and simulated
EnumerateCandidates ==
    /\ recPhase = "enumerating"
    /\ recPits < MAX_PIT_STOPS
    /\ recPits' = recPits + 1
    /\ recCandidates' = recCandidates \cup
           ScoredCandidates(PlanTotalLaps(recPlan), recPits + 1, recModels)
    /\ UNCHANGED <<recPlan, recModels, recActual, recPhase, suggested_strategies>>
    /\ UNCHANGED nonRecVars

\* rank, de-duplicate, return the top K
RankCandidates ==
    /\ recPhase = "enumerating"
    /\ recPits = MAX_PIT_STOPS
    /\ LET ranked == RankedShapes(recCandidates, {}, TOP_K)
       IN  suggested_strategies' =
               [i \in 1 .. Len(ranked) |-> Suggestion(ranked[i], recActual)]
    /\ recPhase' = "done"
    /\ UNCHANGED <<recPlan, recModels, recActual, recPits, recCandidates>>
    /\ UNCHANGED nonRecVars

\* suggestion.stints.map((s) => ({ compound: s.compound, laps: s.laps }))
TryStrategyStints(suggestion) ==
    [i \in 1 .. Len(suggestion.stints) |->
        [compound |-> suggestion.stints[i].compound,
         laps |-> <<suggestion.stints[i].laps>>]]

\* ResultsSummary.handleTryStrategy: a no-op without onApplySuggestion (as
\* StrategyView renders it); with the planner's onChange as the callback
\* the suggestion becomes the planner's stint list
handleTryStrategy ==
    /\ recPhase = "done"
    /\ \E i \in 1 .. Len(suggested_strategies), onApplySuggestion \in BOOLEAN :
          IF ~onApplySuggestion
          THEN /\ op' = "handleTryStrategy"
               /\ UNCHANGED <<stints, simulation>>
          ELSE /\ op' = "onApplySuggestion"
               /\ handleStintsChange(TryStrategyStints(suggested_strategies[i]))
    /\ UNCHANGED <<selectedDriver, raceData, loading, simulating, error,
                   loadRequests, simRequests, edits>>
    /\ UNCHANGED nonUiVars

----------------------------------------------------------------------------
(* ComparisonEngine, section 4.6 of the specification.                     *)
(*                                                                         *)
(*   Aligns simulated and actual lap-time series by lap number (comparison *)
(*   truncates at the shorter series) and computes a running               *)
(*   cumulative_gap = simulated - actual per lap.                          *)
(*                                                                         *)
(* Both series hold one time per lap from lap 1 on, as the simulator emits *)
(* them and as the extractor lists a driver's laps.                        *)

\* the lap times of the compared series: a floored lap, a lap slower than
\* it, and a pit lap
CmpTimes == {MIN_LAP_TIME, MIN_LAP_TIME + 1, MIN_LAP_TIME + PitLossAvg}

CmpSeries == UNION { [1 .. n -> CmpTimes] : n \in 0 .. CmpMaxLaps }

\* the laps compared: those of the shorter series
ComparedLaps(sim, actual) ==
    IF actual = Null THEN 0 ELSE Min(Len(sim), Len(actual[1]))

GapIncrementReversed(sim, act, n) == act[n] - sim[n]
\* simulated - actual on lap n
GapIncrement(sim, act, n) == sim[n] - act[n]

\* a simulate call reaches the comparison
Compare ==
    /\ cmpPhase = "idle"
    /\ \E sim \in CmpSeries, act \in {Null} \cup {Some(a) : a \in CmpSeries} :
          /\ cmpSim' = sim
          /\ cmpActual' = act
    /\ cmpPhase' = "running"
    /\ cumulative_gap' = << >>
    /\ UNCHANGED nonCmpVars

\* the next aligned lap: the running gap grows by simulated - actual
GapStep ==
    /\ cmpPhase = "running"
    /\ Len(cumulative_gap) < ComparedLaps(cmpSim, cmpActual)
    /\ LET n == Len(cumulative_gap) + 1
           running == IF n = 1 THEN 0 ELSE cumulative_gap[n - 1].gap
       IN  cumulative_gap' = Append(cumulative_gap,
               [lap |-> n,
                gap |-> running + GapIncrement(cmpSim, cmpActual[1], n)])
    /\ UNCHANGED <<cmpPhase, cmpSim, cmpActual>>
    /\ UNCHANGED nonCmpVars

\* the shorter series is exhausted
CompareReturn ==
    /\ cmpPhase = "running"
    /\ Len(cumulative_gap) = ComparedLaps(cmpSim, cmpActual)
    /\ cmpPhase' = "done"
    /\ UNCHANGED <<cmpSim, cmpActual, cumulative_gap>>
    /\ UNCHANGED nonCmpVars

----------------------------------------------------------------------------
(* DegradationModelBuilder, section 4.1, and DegradationChart *)

\* Lap times of the builder are binary floating-point numbers. The model
\* keeps the arithmetic and narrows the significand: a number is an integer
\* count of 2^-FracBits, and the result of every operation is rounded to
\* MantissaBits significant bits.
FracBits == MantissaBits

One == 2^FracBits

Abs(x) == IF x < 0 THEN -x ELSE x

RECURSIVE Log2(_)
Log2(a) == IF a < 2 THEN 0 ELSE 1 + Log2(a \div 2)

\* round to nearest with MantissaBits significant bits
Fl(x) ==
    IF x = 0 THEN 0
    ELSE LET a == Abs(x)
             p == Log2(a)
             q == IF p >= MantissaBits - 1 THEN 2^(p - MantissaBits + 1) ELSE 1
             r == ((a + q \div 2) \div q) * q
         IN  IF x > 0 THEN r ELSE -r

\* the quotient truncated towards zero
SDiv(a, b) ==
    IF (a >= 0) = (b > 0) THEN Abs(a) \div Abs(b) ELSE -(Abs(a) \div Abs(b))

Num(n) == Fl(n * One)
FAdd(a, b) == Fl(a + b)
FSub(a, b) == Fl(a - b)
FMul(a, b) == Fl(SDiv(a * b, One))
FDiv(a, b) == Fl(SDiv(a * One, b))

DegCompounds == {"MEDIUM", "HARD"}

\* the lines the synthetic clean laps lie on: 2 + 0.05 * tyre_age, and one
\* with a negative rate, 8 - 2 * tyre_age
DegLines ==
    << [base_time |-> Num(2), deg_rate |-> Fl(SDiv(5 * One, 100))],
       [base_time |-> Num(8), deg_rate |-> Num(-2)] >>

OnLine(line, age) == FAdd(line.base_time, FMul(line.deg_rate, Num(age)))

\* the clean laps of one compound: two laps at every odd tyre age and one at
\* every even one, each exactly on the line
RECURSIVE CleanLaps(_, _)
CleanLaps(line, ages) ==
    IF ages = {} THEN << >>
    ELSE LET a == CHOOSE x \in ages : \A y \in ages : x <= y
             l == [tyre_age |-> a, lap_time |-> OnLine(line, a)]
         IN  (IF a % 2 = 1 THEN <<l, l>> ELSE <<l>>)
             \o CleanLaps(line, ages \ {a})

\* the inputs of one request: per compound with clean laps, the line and the
\* tyre ages seen
DegInputs ==
    UNION {[cs -> (1 .. Len(DegLines)) \X (SUBSET (1 .. DegMaxAge) \ {{}})] :
           cs \in SUBSET DegCompounds}

RECURSIVE SortedAges(_)
SortedAges(S) ==
    IF S = {} THEN << >>
    ELSE LET a == CHOOSE x \in S : \A y \in S : x <= y
         IN  <<a>> \o SortedAges(S \ {a})

RECURSIVE FSum(_)
FSum(s) == IF s = << >> THEN 0 ELSE FAdd(FSum(SubSeq(s, 1, Len(s) - 1)), s[Len(s)])

BucketTimes(laps, a) ==
    LET InBucket(l) == l.tyre_age = a
        b == SelectSeq(laps, InBucket)
    IN  [i \in DOMAIN b |-> b[i].lap_time]

\* CompoundDegradationCurve: buckets by integer tyre age, mean and count
Curve(laps) ==
    LET tl == SortedAges({laps[i].tyre_age : i \in DOMAIN laps})
    IN  [tyre_life |-> tl,
         avg_lap_time |->
             [i \in DOMAIN tl |->
                 FDiv(FSum(BucketTimes(laps, tl[i])),
                      Num(Len(BucketTimes(laps, tl[i]))))],
         count |-> [i \in DOMAIN tl |-> Len(BucketTimes(laps, tl[i]))]]

\* a fitted rate forced to be non-negative
RateClamped(r) == IF r < 0 THEN 0 ELSE r

\* deg_rate as the fit returns it: not clamped
RateReturned(r) == r

\* closed-form ordinary least squares over the buckets
FitLine(curve) ==
    LET x == [i \in DOMAIN curve.tyre_life |-> Num(curve.tyre_life[i])]
        y == curve.avg_lap_time
        n == Num(Len(x))
        sx == FSum(x)
        sy == FSum(y)
        sxx == FSum([i \in DOMAIN x |-> FMul(x[i], x[i])])
        sxy == FSum([i \in DOMAIN x |-> FMul(x[i], y[i])])
        rate == FDiv(FSub(FMul(n, sxy), FMul(sx, sy)),
                     FSub(FMul(n, sxx), FMul(sx, sx)))
        base == FDiv(FSub(sy, FMul(rate, sx)), n)
    IN  [base_time |-> base, deg_rate |-> RateReturned(rate)]

\* a model needs this many distinct tyre-age buckets
MinBuckets == 2

Fittable(curve) == Len(curve.tyre_life) >= MinBuckets

\* the model of one compound, null when the data are insufficient
FitModel(curve) == IF Fittable(curve) THEN Some(FitLine(curve)) ELSE Null

\* a request arrives with its clean laps grouped by compound
BuildDegradation ==
    /\ degPhase = "idle"
    /\ \E req \in DegInputs :
         /\ degLines' = [c \in DOMAIN req |-> DegLines[req[c][1]]]
         /\ degLaps' = [c \in DOMAIN req |->
                           CleanLaps(DegLines[req[c][1]], req[c][2])]
    /\ degPhase' = "bucketing"
    /\ degCompounds' = << >>
    /\ degModels' = << >>
    /\ degInsufficient' = {}
    /\ chartDrawn' = {}
    /\ UNCHANGED nonDegVars

\* the curve of every compound
BucketLaps ==
    /\ degPhase = "bucketing"
    /\ degCompounds' = [c \in DOMAIN degLaps |-> Curve(degLaps[c])]
    /\ degPhase' = "fitting"
    /\ UNCHANGED <<degLaps, degLines, degModels, degInsufficient, chartDrawn>>
    /\ UNCHANGED nonDegVars

\* the model of every compound; the response is complete
FitModels ==
    /\ degPhase = "fitting"
    /\ degModels' = [c \in DOMAIN degCompounds |-> FitModel(degCompounds[c])]
    /\ degInsufficient' =
           {c \in DOMAIN degCompounds : FitModel(degCompounds[c]) = Null}
    /\ degPhase' = "fitted"
    /\ UNCHANGED <<degLaps, degLines, degCompounds, chartDrawn>>
    /\ UNCHANGED nonDegVars

\* a chart that draws a trend line for every compound
TrendAlways(model) == TRUE

\* `if (model)` of the chart
TrendDrawn(model) == model # Null

\* what the effect of DegradationChart appends for one compound
ChartElements(compound, model) ==
    {<<compound, "path">>, <<compound, "circles">>}
    \cup (IF TrendDrawn(model) THEN {<<compound, "trend">>} ELSE {})

\* the effect of DegradationChart on a response
DegradationChart ==
    /\ degPhase = "fitted"
    /\ LET compoundNames == DOMAIN degCompounds
       IN  chartDrawn' =
               IF compoundNames = {} THEN {}
               ELSE UNION {ChartElements(c, degModels[c]) : c \in compoundNames}
    /\ degPhase' = "drawn"
    /\ UNCHANGED <<degLaps, degLines, degCompounds, degModels, degInsufficient>>
    /\ UNCHANGED nonDegVars

----------------------------------------------------------------------------
(* ActualStrategyExtractor, section 4.4 *)

\* the lap records of a known driver: laps 1 .. n, each with its compound
DriverLaps ==
    UNION {[1 .. n -> COMPOUND_OPTIONS] : n \in 1 .. ExtMaxLaps}

LapRecord(n, c) ==
    [lap_number |-> n, compound |-> c, lap_time |-> MIN_LAP_TIME + n]

StintInfo(k, c, s, e, n) ==
    [stint |-> k, compound |-> c, start_lap |-> s, end_lap |-> e, laps |-> n]

PitLap(l, from, to) == [lap |-> l, from_compound |-> from, to_compound |-> to]

\* an extractor that never sees a compound change
SameStintAlways(st, l) == TRUE

\* a lap continues the open stint when it is on the stint's compound
SameStint(st, l) == st.compound = l.compound

\* a request for a driver of the session
Extract ==
    /\ extPhase = "idle"
    /\ \E cs \in DriverLaps :
         extLaps' = [i \in DOMAIN cs |-> LapRecord(i, cs[i])]
    /\ extPhase' = "running"
    /\ extNext' = 1
    /\ extStints' = << >>
    /\ extPitLaps' = << >>
    /\ extLapTimes' = << >>
    /\ extTotalTime' = 0
    /\ UNCHANGED nonExtVars

\* a request for a driver the session does not know: NotFound
ExtractUnknown ==
    /\ extPhase = "idle"
    /\ extPhase' = "not_found"
    /\ UNCHANGED <<extLaps, extNext, extStints, extPitLaps, extLapTimes,
                   extTotalTime>>
    /\ UNCHANGED nonExtVars

\* the next lap of the driver joins the open stint or opens a new one
ExtractLap ==
    /\ extPhase = "running"
    /\ extNext <= Len(extLaps)
    /\ LET l == extLaps[extNext]
           k == Len(extStints)
       IN  /\ IF k = 0
              THEN /\ extStints' = <<StintInfo(1, l.compound, l.lap_number,
                                               l.lap_number, 1)>>
                   /\ extPitLaps' = extPitLaps
              ELSE IF SameStint(extStints[k], l)
              THEN /\ extStints' =
                          [extStints EXCEPT ![k].end_lap = l.lap_number,
                                            ![k].laps = @ + 1]
                   /\ extPitLaps' = extPitLaps
              ELSE /\ extStints' =
                          Append(extStints,
                                 StintInfo(k + 1, l.compound, l.lap_number,
                                           l.lap_number, 1))
                   /\ extPitLaps' =
                          Append(extPitLaps,
                                 PitLap(l.lap_number, extStints[k].compound,
                                        l.compound))
           /\ extLapTimes' =
                  Append(extLapTimes,
                         [lap |-> l.lap_number, time_sec |-> l.lap_time,
                          compound |-> l.compound])
           /\ extTotalTime' = extTotalTime + l.lap_time
    /\ extNext' = extNext + 1
    /\ UNCHANGED <<extPhase, extLaps>>
    /\ UNCHANGED nonExtVars

\* every lap is placed: the ActualStrategy is returned
ExtractReturn ==
    /\ extPhase = "running"
    /\ extNext > Len(extLaps)
    /\ extPhase' = "done"
    /\ UNCHANGED <<extLaps, extNext, extStints, extPitLaps, extLapTimes,
                   extTotalTime>>
    /\ UNCHANGED nonExtVars

----------------------------------------------------------------------------
(* ResultsSummary (verdict) and CumulativeGapChart, as StrategyView renders *)
(* them under `simulation && (...)`                                         *)

\* total times of the responses shown, in hundredths of a second
UserTotals == {2 * MIN_LAP_TIME - 100, 2 * MIN_LAP_TIME, 2 * MIN_LAP_TIME + 100}
ActualTotals == {2 * MIN_LAP_TIME, 2 * MIN_LAP_TIME + 50}

\* the gap series of a response with an actual strategy
RECURSIVE GapSeries(_)
GapSeries(n) ==
    IF n = 0 THEN {<< >>}
    ELSE GapSeries(n - 1)
         \cup {Append(s, [lap |-> Len(s) + 1, gap |-> g]) :
                  s \in {t \in GapSeries(n - 1) : Len(t) = n - 1},
                  g \in {-50, 100}}

\* the responses of POST /simulate: without an actual strategy the gap
\* series is empty
ShownResponses ==
    {[user_total_time |-> u, actual |-> Null, cumulative_gap |-> << >>] :
        u \in UserTotals}
    \cup {[user_total_time |-> u, actual |-> Some([total_time |-> a]),
           cumulative_gap |-> s] :
             u \in UserTotals, a \in ActualTotals,
             s \in GapSeries(MaxGapPoints) \ {<< >>}}

\* actual?.total_time ?? 0
actualTotal(sim) == IF sim.actual = Null THEN 0 ELSE sim.actual[1].total_time

\* actualTotal > 0 ? user_total_time - actualTotal : 0
diff(sim) ==
    IF actualTotal(sim) > 0 THEN sim.user_total_time - actualTotal(sim) ELSE 0

isFaster(sim) == diff(sim) < 0

\* the texts ResultsSummary renders from the response
ResultsSummary(sim) ==
    [verdict |->
        IF actualTotal(sim) > 0
        THEN (IF isFaster(sim) THEN "s FASTER!" ELSE "s slower")
        ELSE "No comparison available",
     caption |->
        IF isFaster(sim)
        THEN "Your strategy would have beaten the actual result!"
        ELSE "The actual strategy was better this time.",
     actualTime |->
        IF actualTotal(sim) > 0 THEN "formatRaceTime(actualTotal)" ELSE "N/A"]

\* the effect of CumulativeGapChart on the svg it finds: with an empty series
\* it returns before anything is removed
GapChartEffect(svg, sim) ==
    IF Len(sim.cumulative_gap) = 0 THEN svg ELSE sim.cumulative_gap

\* SET_SIMULATION: the results are rendered with the response; the chart is
\* mounted with an empty svg when no result was shown before
ShowSimulation ==
    /\ \E sim \in ShownResponses :
         /\ sim # IF shown = Null THEN Null ELSE shown[1]
         /\ shown' = Some(sim)
         /\ summary' = Some(ResultsSummary(sim))
         /\ gapSvg' = GapChartEffect(IF shown = Null THEN << >> ELSE gapSvg,
                                     sim)
    /\ UNCHANGED nonSumVars

\* RESET_SIM or SET_RACE_DATA: simulation is null and the results unmount
HideSimulation ==
    /\ shown # Null
    /\ shown' = Null
    /\ summary' = Null
    /\ gapSvg' = << >>
    /\ UNCHANGED nonSumVars

----------------------------------------------------------------------------
(* StintPlanner on JavaScript arrays and objects: a list is a reference to  *)
(* an array of references to stint objects                                  *)

\* the lap counts typed in the planner runs
PlanLaps == {Blank, <<1>>}

Heap(arrs, objs) == [arrays |-> arrs, objects |-> objs]

\* the value of the list behind a reference
Deref(arrs, objs, a) == [i \in DOMAIN arrs[a] |-> objs[arrs[a][i]]]

\* the heap with only the list of state.stints left: array 1, objects 1 .. n
Collected ==
    LET cur == arrays[propStints]
    IN  Heap(<< [i \in DOMAIN cur |-> i] >>,
             [i \in DOMAIN cur |-> objects[cur[i]]])

\* `const next = stints`: the same array under another name
AliasArray(h, a) == [heap |-> h, ref |-> a]

\* [...stints]: a new array holding the same references
SpreadArray(h, a) ==
    [heap |-> Heap(Append(h.arrays, h.arrays[a]), h.objects),
     ref |-> Len(h.arrays) + 1]

\* stints.slice(0, -1): a new array without the last reference
SliceArray(h, a) ==
    [heap |-> Heap(Append(h.arrays,
                          SubSeq(h.arrays[a], 1, Len(h.arrays[a]) - 1)),
                   h.objects),
     ref |-> Len(h.arrays) + 1]

\* an object literal
NewObject(h, rec) ==
    [heap |-> Heap(h.arrays, Append(h.objects, rec)),
     ref |-> Len(h.objects) + 1]

\* add a stint only while more than MAX_STINTS are never reached by it
AtMaxStintsOver(n) == n > MAX_STINTS

\* if (stints.length >= MAX_STINTS) return;
AtMaxStints(n) == n >= MAX_STINTS

\* if (stints.length <= 2) return;
AtMinStints(n) == n <= 2

\* updateStint(index, field, value) on the prop stints; onChange is the list
\* handed to onChange, or null when the handler returned before
updateStintOn(h, stints_, index, field, value) ==
    LET s == SpreadArray(h, stints_)
        next == s.ref
        old == s.heap.objects[s.heap.arrays[next][index]]
        o == NewObject(s.heap,
                       IF field = "laps" THEN [old EXCEPT !.laps = value]
                                         ELSE [old EXCEPT !.compound = value])
    IN  [heap |-> Heap([o.heap.arrays EXCEPT ![next][index] = o.ref],
                       o.heap.objects),
         onChange |-> Some(next)]

addStintOn(h, stints_) ==
    IF AtMaxStints(Len(h.arrays[stints_]))
    THEN [heap |-> h, onChange |-> Null]
    ELSE LET s == SpreadArray(h, stints_)
             o == NewObject(s.heap, [compound |-> "HARD", laps |-> Blank])
         IN  [heap |-> Heap([o.heap.arrays EXCEPT
                                ![s.ref] = Append(@, o.ref)],
                            o.heap.objects),
              onChange |-> Some(s.ref)]

removeStintOn(h, stints_) ==
    IF AtMinStints(Len(h.arrays[stints_]))
    THEN [heap |-> h, onChange |-> Null]
    ELSE LET s == SliceArray(h, stints_)
         IN  [heap |-> s.heap, onChange |-> Some(s.ref)]

\* a planner handler ran on the list of state.stints (array 1 after
\* collection); SET_STINTS stores the list handed to onChange
PlannerRan(r, name, index, field) ==
    /\ planOps < PlanOps
    /\ arrays' = r.heap.arrays
    /\ objects' = r.heap.objects
    /\ propStints' = IF r.onChange = Null THEN 1 ELSE r.onChange[1]
    /\ planOp' = [name |-> name, index |-> index, field |-> field,
                  changed |-> r.onChange # Null]
    /\ planOps' = planOps + 1
    /\ UNCHANGED nonPlanVars

CallUpdateStintLaps ==
    \E i \in DOMAIN arrays[propStints], v \in PlanLaps :
        PlannerRan(updateStintOn(Collected, 1, i, "laps", v),
                   "updateStint", i, "laps")

CallUpdateStintCompound ==
    \E i \in DOMAIN arrays[propStints], c \in COMPOUND_OPTIONS :
        PlannerRan(updateStintOn(Collected, 1, i, "compound", c),
                   "updateStint", i, "compound")

CallAddStint == PlannerRan(addStintOn(Collected, 1), "addStint", 0, "")

CallRemoveStint ==
    PlannerRan(removeStintOn(Collected, 1), "removeStint", 0, "")

----------------------------------------------------------------------------
(* SessionProvider (useSession.tsx) and the drivers effect of StrategyView  *)

\* the years SessionSelector offers
YEARS == {2024, 2023, 2022}

\* what GET /races answers for a year: the names of its races, in order
Calendar(y) ==
    CASE y = 2024 -> <<"Bahrain", "Las Vegas">>
      [] y = 2023 -> <<"Bahrain", "Qatar">>
      [] OTHER -> << >>

Names(list) == {list[i] : i \in DOMAIN list}

\* what GET /drivers answers: the driver list of that race of that year
DriversOf(y, r) == <<[code |-> "VER", year |-> y, race |-> r]>>

\* a fetchRaces promise with the closure of the effect that made it
RaceFetch(y, r) == [year |-> y, race |-> r, cancelled |-> FALSE]

\* an effect without cleanup
NotCleanedUp(fetches) == fetches

\* the cleanup of the races effect: cancelled = true in every earlier closure
CleanedUp(fetches) == {[f EXCEPT !.cancelled = TRUE] : f \in fetches}

\* StrategyView's effect on [year, race]: if (!race) return; fetchDrivers(...)
DriversEffect(y, r) ==
    IF r = "" THEN driverFetches
    ELSE driverFetches \cup {[year |-> y, race |-> r]}

\* the Year select of SessionSelector: setYear, then the effects on [year]
\* and on [year, race] run
SetYear ==
    /\ selections < MaxSelections
    /\ selections' = selections + 1
    /\ \E y \in YEARS \ {year} :
         /\ year' = y
         /\ raceFetches' = CleanedUp(raceFetches) \cup {RaceFetch(y, race)}
         /\ driverFetches' = DriversEffect(y, race)
    /\ loadingRaces' = TRUE
    /\ sessOp' = "setYear"
    /\ UNCHANGED <<race, races, racesFrom, drivers>>
    /\ UNCHANGED nonSessVars

\* the Race select, disabled={loadingRaces}, offers the names in races
SetRace ==
    /\ ~loadingRaces
    /\ selections < MaxSelections
    /\ selections' = selections + 1
    /\ \E r \in Names(races) \ {race} :
         /\ race' = r
         /\ driverFetches' = DriversEffect(year, r)
    /\ sessOp' = "setRace"
    /\ UNCHANGED <<year, races, racesFrom, loadingRaces, raceFetches, drivers>>
    /\ UNCHANGED nonSessVars

\* fetchRaces resolved: .then and .finally of the effect that made it
RacesResolved ==
    \E f \in raceFetches :
        /\ raceFetches' = raceFetches \ {f}
        /\ IF f.cancelled
           THEN /\ sessOp' = "racesIgnored"
                /\ UNCHANGED <<race, races, racesFrom, loadingRaces,
                               driverFetches>>
           ELSE LET data == Calendar(f.year)
                    replace == Len(data) > 0 /\ f.race \notin Names(data)
                IN  /\ races' = data
                    /\ racesFrom' = f.year
                    /\ race' = IF replace THEN data[1] ELSE race
                    /\ driverFetches' =
                           IF replace /\ data[1] # race
                           THEN DriversEffect(year, data[1])
                           ELSE driverFetches
                    /\ loadingRaces' = FALSE
                    /\ sessOp' = "setRaces"
        /\ UNCHANGED <<year, drivers, selections>>
        /\ UNCHANGED nonSessVars

\* fetchRaces rejected: console.error, then .finally
RacesRejected ==
    \E f \in raceFetches :
        /\ raceFetches' = raceFetches \ {f}
        /\ loadingRaces' = IF f.cancelled THEN loadingRaces ELSE FALSE
        /\ sessOp' = "racesFailed"
        /\ UNCHANGED <<year, race, races, racesFrom, drivers, driverFetches, selections>>
        /\ UNCHANGED nonSessVars

\* fetchDrivers resolved: SET_DRIVERS, whatever is selected by now
DriversResolved ==
    \E f \in driverFetches :
        /\ driverFetches' = driverFetches \ {f}
        /\ drivers' = DriversOf(f.year, f.race)
        /\ sessOp' = "SET_DRIVERS"
        /\ UNCHANGED <<year, race, races, racesFrom, loadingRaces, raceFetches, selections>>
        /\ UNCHANGED nonSessVars

\* fetchDrivers rejected: SET_ERROR
DriversRejected ==
    \E f \in driverFetches :
        /\ driverFetches' = driverFetches \ {f}
        /\ error' = ErrRequest
        /\ sessOp' = "driversFailed"
        /\ UNCHANGED <<year, race, races, racesFrom, loadingRaces, raceFetches,
                       drivers, selections>>
        /\ UNCHANGED <<selectedDriver, raceData, stints, simulation, loading,
                       simulating, loadRequests, simRequests, op, edits>>
        /\ UNCHANGED nonUiSessVars

----------------------------------------------------------------------------
(* TelemetryView: the drivers effect and the telemetry effect               *)

\* what useSession() hands the view before a race is selected
NoRace == [year |-> 2024, race |-> "", session |-> "R"]

\* the selections the session can move to
Contexts ==
    [year : {2024, 2023}, race : {"Bahrain"}, session : {"R", "Q"}]

\* what GET /drivers answers for the view
TelemetryDrivers == <<"VER", "HAM">>

\* data.slice(0, 3).map((d) => d.code)
Defaults(data) == SubSeq(data, 1, IF Len(data) < 3 THEN Len(data) ELSE 3)

\* prev.includes(code) ? prev.filter((d) => d !== code) : [...prev, code]
Toggled(prev, code) ==
    LET Other(d) == d # code
    IN  IF \E i \in DOMAIN prev : prev[i] = code
        THEN SelectSeq(prev, Other)
        ELSE Append(prev, code)

\* the cleanup of an effect: cancelled = true in the closure of its last run
Cancelled(fetches) == {[f EXCEPT !.cancelled = TRUE] : f \in fetches}

\* the telemetry effect, run because year, race, session or selectedDrivers
\* changed: the cleanup of its last run, then its body
TelemetryEffect(c, selected) ==
    IF c.race = "" \/ Len(selected) = 0
    THEN /\ telemetry' = Null
         /\ telemetryFetches' = Cancelled(telemetryFetches)
         /\ UNCHANGED <<tvLoading, tvError>>
    ELSE /\ tvLoading' = TRUE
         /\ tvError' = ""
         /\ telemetryFetches' = Cancelled(telemetryFetches) \cup
                {[context |-> c, drivers |-> selected, cancelled |-> FALSE]}
         /\ UNCHANGED telemetry

\* the session context changed (every context offered has a race, so the
\* drivers effect fetches): both effects run again
ContextChanged ==
    /\ tvOps < MaxTelemetryOps
    /\ tvOps' = tvOps + 1
    /\ \E c \in Contexts \ {context} :
         /\ context' = c
         /\ loadingDrivers' = TRUE
         /\ tvDriverFetches' = Cancelled(tvDriverFetches) \cup
                {[context |-> c, cancelled |-> FALSE]}
         /\ TelemetryEffect(c, selectedDrivers)
    /\ tvOp' = "context"
    /\ UNCHANGED <<tvDrivers, selectedDrivers>>
    /\ UNCHANGED nonTelVars

\* a driver button clicked
toggleDriver ==
    /\ tvOps < MaxTelemetryOps
    /\ tvOps' = tvOps + 1
    /\ \E i \in DOMAIN tvDrivers :
         /\ selectedDrivers' = Toggled(selectedDrivers, tvDrivers[i])
         /\ TelemetryEffect(context, selectedDrivers')
    /\ tvOp' = "toggleDriver"
    /\ UNCHANGED <<context, tvDrivers, loadingDrivers, tvDriverFetches>>
    /\ UNCHANGED nonTelVars

\* fetchDrivers resolved: then and finally; the new selectedDrivers array
\* runs the telemetry effect again
TvDriversResolved ==
    \E f \in tvDriverFetches :
        /\ tvDriverFetches' = tvDriverFetches \ {f}
        /\ IF f.cancelled
           THEN /\ tvOp' = "driversIgnored"
                /\ UNCHANGED <<tvDrivers, selectedDrivers, loadingDrivers,
                               telemetry, tvLoading, tvError,
                               telemetryFetches>>
           ELSE /\ tvDrivers' = TelemetryDrivers
                /\ selectedDrivers' = Defaults(TelemetryDrivers)
                /\ loadingDrivers' = FALSE
                /\ TelemetryEffect(context, selectedDrivers')
                /\ tvOp' = "setDrivers"
        /\ UNCHANGED <<context, tvOps>>
        /\ UNCHANGED nonTelVars

\* fetchDrivers rejected: catch and finally
TvDriversRejected ==
    \E f \in tvDriverFetches :
        /\ tvDriverFetches' = tvDriverFetches \ {f}
        /\ tvError' = IF f.cancelled THEN tvError ELSE "e.message"
        /\ loadingDrivers' = IF f.cancelled THEN loadingDrivers ELSE FALSE
        /\ tvOp' = "driversFailed"
        /\ UNCHANGED <<context, tvDrivers, selectedDrivers, telemetry,
                       tvLoading, telemetryFetches, tvOps>>
        /\ UNCHANGED nonTelVars

\* fetchTelemetry resolved: then and finally
TelemetryResolved ==
    \E f \in telemetryFetches :
        /\ telemetryFetches' = telemetryFetches \ {f}
        /\ telemetry' = IF f.cancelled THEN telemetry
                        ELSE Some([context |-> f.context,
                                   drivers |-> f.drivers])
        /\ tvLoading' = IF f.cancelled THEN tvLoading ELSE FALSE
        /\ tvOp' = IF f.cancelled THEN "telemetryIgnored" ELSE "setTelemetry"
        /\ UNCHANGED <<context, tvDrivers, selectedDrivers, loadingDrivers,
                       tvError, tvDriverFetches, tvOps>>
        /\ UNCHANGED nonTelVars

\* fetchTelemetry rejected: catch and finally
TelemetryRejected ==
    \E f \in telemetryFetches :
        /\ telemetryFetches' = telemetryFetches \ {f}
        /\ tvError' = IF f.cancelled THEN tvError ELSE "e.message"
        /\ tvLoading' = IF f.cancelled THEN tvLoading ELSE FALSE
        /\ tvOp' = "telemetryFailed"
        /\ UNCHANGED <<context, tvDrivers, selectedDrivers, loadingDrivers,
                       telemetry, tvDriverFetches, tvOps>>
        /\ UNCHANGED nonTelVars

----------------------------------------------------------------------------
(* Specifications of the strategy view *)

InitUI ==
    /\ selectedDriver = ""
    /\ raceData = Null
    /\ stints = initialStints
    /\ simulation = Null
    /\ loading = FALSE
    /\ simulating = FALSE
    /\ error = NoError
    /\ loadRequests = << >>
    /\ simRequests = << >>
    /\ op = "init"
    /\ edits = 0

InitSim ==
    /\ stint_plan = << >>
    /\ models = << >>
    /\ phase = "idle"
    /\ lap = 0
    /\ current_compound = ""
    /\ tyre_age = 0
    /\ cumulative_time = 0
    /\ simulated_laps = << >>
    /\ user_total_time = 0
    /\ prevRun = Null

InitRt ==
    /\ rtStints = << >>
    /\ rtTotal = 0
    /\ rtStops = Null
    /\ rtBack = Null

InitRec ==
    /\ recPlan = << >>
    /\ recModels = << >>
    /\ recActual = Null
    /\ recPhase = "idle"
    /\ recPits = 0
    /\ recCandidates = {}
    /\ suggested_strategies = << >>

InitCmp ==
    /\ cmpPhase = "idle"
    /\ cmpSim = << >>
    /\ cmpActual = Null
    /\ cumulative_gap = << >>

InitDeg ==
    /\ degPhase = "idle"
    /\ degLaps = << >>
    /\ degLines = << >>
    /\ degCompounds = << >>
    /\ degModels = << >>
    /\ degInsufficient = {}
    /\ chartDrawn = {}

InitExt ==
    /\ extPhase = "idle"
    /\ extLaps = << >>
    /\ extNext = 1
    /\ extStints = << >>
    /\ extPitLaps = << >>
    /\ extLapTimes = << >>
    /\ extTotalTime = 0

InitSum ==
    /\ shown = Null
    /\ summary = Null
    /\ gapSvg = << >>

InitPlan ==
    /\ arrays = << <<1, 2>> >>
    /\ objects = initialStints
    /\ propStints = 1
    /\ planOp = [name |-> "init", index |-> 0, field |-> "", changed |-> FALSE]
    /\ planOps = 0

\* after the first render: the races effect has run for 2024
InitSess ==
    /\ year = 2024
    /\ race = ""
    /\ races = << >>
    /\ racesFrom = 0
    /\ loadingRaces = TRUE
    /\ raceFetches = {RaceFetch(2024, "")}
    /\ drivers = << >>
    /\ driverFetches = {}
    /\ sessOp = "mount"
    /\ selections = 0

\* TelemetryView mounted before a race is selected: both effects returned
InitTel ==
    /\ context = NoRace
    /\ tvDrivers = << >>
    /\ selectedDrivers = << >>
    /\ telemetry = Null
    /\ tvLoading = FALSE
    /\ loadingDrivers = FALSE
    /\ tvError = ""
    /\ tvDriverFetches = {}
    /\ telemetryFetches = {}
    /\ tvOp = "mount"
    /\ tvOps = 0

Init ==
    /\ InitUI /\ InitSim /\ InitRt /\ InitRec /\ InitCmp /\ InitDeg
    /\ InitExt /\ InitSum /\ InitPlan /\ InitSess /\ InitTel

\* The view as a user drives it: handlers run when their buttons are enabled,
\* as long as the view is mounted.
Next ==
    /\ ~ViewCrashed
    /\ \/ SetDriver
       \/ ClickLoadRaceData
       \/ LoadResolved
       \/ LoadRejected
       \/ UpdateLaps
       \/ UpdateCompound
       \/ addStint
       \/ removeStint
       \/ ClickSimulate
       \/ SimulateResolved
       \/ SimulateRejected

Spec == Init /\ [][Next]_vars

\* handleSimulate called in any state, whatever the button shows
CallHandleSimulate ==
    /\ Len(simRequests) < MaxPending
    /\ handleSimulate

NextHandlers ==
    /\ ~ViewCrashed
    /\ \/ SetDriver
       \/ ClickLoadRaceData
       \/ LoadResolved
       \/ LoadRejected
       \/ UpdateLaps
       \/ UpdateCompound
       \/ addStint
       \/ removeStint
       \/ CallHandleSimulate
       \/ SimulateResolved
       \/ SimulateRejected

SpecHandlers == Init /\ [][NextHandlers]_vars

\* the simulator called again and again
NextSim ==
    \/ Simulate
    \/ SimulateAgain
    \/ SimulateLap
    \/ SimulateReturn

SpecSim == Init /\ [][NextSim]_vars

\* a stint list turned into pit stops and back
NextRoundTrip ==
    \/ RenderResultsSummary
    \/ ComputeUserStops
    \/ RebuildStints

SpecRoundTrip == Init /\ [][NextRoundTrip]_vars

\* the recommender of one simulate call, and its suggestions tried
NextRec ==
    \/ Recommend
    \/ EnumerateCandidates
    \/ RankCandidates
    \/ handleTryStrategy

SpecRec == Init /\ [][NextRec]_vars

\* the comparison of one simulate call
NextCmp ==
    \/ Compare
    \/ GapStep
    \/ CompareReturn

SpecCmp == Init /\ [][NextCmp]_vars

\* one degradation request, answered and drawn by the chart
NextDeg ==
    \/ BuildDegradation
    \/ BucketLaps
    \/ FitModels
    \/ DegradationChart

SpecDeg == Init /\ [][NextDeg]_vars

\* one extraction of a driver's actual strategy
NextExt ==
    \/ Extract
    \/ ExtractUnknown
    \/ ExtractLap
    \/ ExtractReturn

SpecExt == Init /\ [][NextExt]_vars

\* simulation results shown, replaced and hidden
NextSummary ==
    \/ ShowSimulation
    \/ HideSimulation

SpecSummary == Init /\ [][NextSummary]_vars

\* the planner's handlers called one after another, whatever the buttons show
NextPlanner ==
    \/ CallUpdateStintLaps
    \/ CallUpdateStintCompound
    \/ CallAddStint
    \/ CallRemoveStint

SpecPlanner == Init /\ [][NextPlanner]_vars

\* year and race selections interleaved with the responses
NextSession ==
    \/ SetYear
    \/ SetRace
    \/ RacesResolved
    \/ RacesRejected
    \/ DriversResolved
    \/ DriversRejected

SpecSession == Init /\ [][NextSession]_vars

\* context changes and driver toggles interleaved with the responses
NextTelemetry ==
    \/ ContextChanged
    \/ toggleDriver
    \/ TvDriversResolved
    \/ TvDriversRejected
    \/ TelemetryResolved
    \/ TelemetryRejected

SpecTelemetry == Init /\ [][NextTelemetry]_vars

----------------------------------------------------------------------------
(* Properties of the strategy view *)

\* C1: whenever handleSimulate runs with race data loaded and lap counts (a
\* blank count taken as 0) that do not sum to raceData.totalLaps, it sets the
\* total-laps error message, sends no simulate request, and leaves stints,
\* the stored simulation and the simulating flag unchanged.
C1_MismatchRejected ==
    [][ ( /\ op' = "handleSimulate"
          /\ raceData # Null
          /\ TotalPlanned(stints) # raceData[1].totalLaps )
        => ( /\ error' = ErrTotalLaps(TotalPlanned(stints), raceData[1].totalLaps)
             /\ simRequests' = simRequests
             /\ simulating' = simulating
             /\ stints' = stints
             /\ simulation' = simulation ) ]_vars

\* handleSimulate has just rejected a plan whose laps do not sum to the race
C1_Witness ==
    /\ op = "handleSimulate"
    /\ raceData # Null
    /\ TotalPlanned(stints) # raceData[1].totalLaps
    /\ error = ErrTotalLaps(TotalPlanned(stints), raceData[1].totalLaps)
    /\ simRequests = << >>

\* C2: whenever handleSimulate runs on a plan whose stints all carry the same
\* compound, it sets an error message and sends no simulate request; when the
\* lap counts do sum to the race length the message is the two-compounds one.
C2_SingleCompoundRejected ==
    [][ ( /\ op' = "handleSimulate"
          /\ raceData # Null
          /\ \A i, j \in 1 .. Len(stints) : stints[i].compound = stints[j].compound )
        => ( /\ error' # NoError
             /\ simRequests' = simRequests
             /\ simulating' = simulating
             /\ (TotalPlanned(stints) = raceData[1].totalLaps => error' = ErrCompounds) ) ]_vars

\* a one-compound plan whose laps sum to the race length has just been rejected
C2_Witness ==
    /\ op = "handleSimulate"
    /\ raceData # Null
    /\ \A i, j \in 1 .. Len(stints) : stints[i].compound = stints[j].compound
    /\ TotalPlanned(stints) = raceData[1].totalLaps
    /\ error = ErrCompounds
    /\ simRequests = << >>
    /\ ~simulating

\* C3: no simulate request in flight contains a stint whose lap count is
\* zero (a blank count is sent as 0) or negative.
C3_NoEmptyStintSent ==
    \A k \in 1 .. Len(simRequests) :
        \A i \in 1 .. Len(simRequests[k].stints) :
            simRequests[k].stints[i].laps >= 1

----------------------------------------------------------------------------
(* Properties of the race simulator *)

RECURSIVE SumTimes(_, _)
\* the sum of the first n emitted lap times
SumTimes(laps, n) == IF n = 0 THEN 0 ELSE SumTimes(laps, n - 1) + laps[n].time_sec

\* the laps emitted with is_pit_lap
PitLapsEmitted == {n \in 1 .. Len(simulated_laps) : simulated_laps[n].is_pit_lap}

\* tyre age of lap n as the plan has it: laps since the stint began
PlannedAge(plan, n) == n - PlanSum(plan, StintOfLap(plan, n) - 1)

\* compound of lap n as the plan has it
PlannedCompound(plan, n) == plan[StintOfLap(plan, n)].compound

\* base_time + deg_rate * tyre_age for lap n of the plan, not floored
LinearTime(plan, ms, n) ==
    ModelOf(ms, PlannedCompound(plan, n)).base_time
    + ModelOf(ms, PlannedCompound(plan, n)).deg_rate * PlannedAge(plan, n)

RECURSIVE SumLinear(_, _, _)
SumLinear(plan, ms, n) ==
    IF n = 0 THEN 0 ELSE SumLinear(plan, ms, n - 1) + LinearTime(plan, ms, n)

RECURSIVE SumFloored(_, _, _)
SumFloored(plan, ms, n) ==
    IF n = 0 THEN 0
    ELSE SumFloored(plan, ms, n - 1) + Max(LinearTime(plan, ms, n), MIN_LAP_TIME)

\* C4: the laps emitted so far are numbered 1, 2, ... in order; when the call
\* returns there are exactly total_laps of them and the pit laps are exactly
\* the k-1 running sums n1, n1+n2, ... of the plan, never the final lap; the
\* plan [MEDIUM 28, HARD 29] yields 57 laps with lap 28 the only pit lap.
C4_LapsAndPitLaps ==
    /\ Len(simulated_laps) = lap
    /\ \A n \in 1 .. Len(simulated_laps) : simulated_laps[n].lap = n
    /\ phase = "done" =>
          /\ Len(simulated_laps) = PlanTotalLaps(stint_plan)
          /\ PitLapsEmitted = {PlanSum(stint_plan, i) : i \in 1 .. Len(stint_plan) - 1}
          /\ Cardinality(PitLapsEmitted) = Len(stint_plan) - 1
          /\ PlanTotalLaps(stint_plan) \notin PitLapsEmitted
    /\ (phase = "done" /\ stint_plan = ExamplePlan) =>
          /\ Len(simulated_laps) = 57
          /\ PitLapsEmitted = {28}

\* the worked example has run to its end
C4_Witness ==
    /\ phase = "done"
    /\ stint_plan = ExamplePlan
    /\ Len(simulated_laps) = 57
    /\ simulated_laps[28].is_pit_lap

\* C5 as stated: the returned total is the sum of base_time + deg_rate *
\* tyre_age over all laps plus the pit loss once per pit lap.
C5_TotalIsLinearSum ==
    phase = "done" =>
        user_total_time = SumLinear(stint_plan, models, PlanTotalLaps(stint_plan))
                          + PitLossAvg * (Len(stint_plan) - 1)

\* C5, amended: the returned total is the sum of the emitted lap times, which
\* is the sum over all laps of the floored prediction
\* max(base_time + deg_rate * tyre_age, minimum) plus the pit loss once for
\* each of the k-1 pit laps.
C5_TotalIsFlooredSum ==
    phase = "done" =>
        /\ user_total_time = SumTimes(simulated_laps, Len(simulated_laps))
        /\ user_total_time = SumFloored(stint_plan, models, PlanTotalLaps(stint_plan))
                             + PitLossAvg * (Len(stint_plan) - 1)

\* a three-stint run has returned in which some lap's prediction was floored
C5_Witness ==
    /\ phase = "done"
    /\ Len(stint_plan) = 3
    /\ \E n \in 1 .. PlanTotalLaps(stint_plan) :
          LinearTime(stint_plan, models, n) < MIN_LAP_TIME
    /\ user_total_time = cumulative_time

\* the stint the simulator is in: that of the next lap to run
CurrentStint ==
    StintOfLap(stint_plan, Min(lap + 1, PlanTotalLaps(stint_plan)))

SplitPlaces(orig, plan) ==
    { x \in (1 .. Len(orig)) \X (1 .. PlanTotalLaps(orig)) :
        x[2] < orig[x[1]].laps /\ SplitStint(orig, x[1], x[2]) = plan }

\* degradation saved by resetting the tyre age after a laps of stint i:
\* deg_rate * a for each of the stint's remaining laps
DegradationSaved(orig, ms, i, a) ==
    ModelOf(ms, orig[i].compound).deg_rate * a * (orig[i].laps - a)

\* no lap of stint i has a prediction below the floor
StintUnfloored(orig, ms, i) ==
    \A age \in 1 .. orig[i].laps :
        ModelOf(ms, orig[i].compound).base_time
        + ModelOf(ms, orig[i].compound).deg_rate * age
            >= MIN_LAP_TIME

----------------------------------------------------------------------------
(* Properties of the pit-stop list of ResultsSummary *)

\* C9: for every valid stint list (lap counts of at least 1 that sum to the
\* race length, two distinct compounds), the stint list rebuilt from its
\* userStops and the race length is the original stint list.
C9_RoundTrip ==
    (rtBack # Null /\ StintPlanInvariant(rtStints, rtTotal, MinLapInput))
        => rtBack[1] = rtStints

\* a valid three-stint list has been converted to two pit stops and back
C9_Witness ==
    /\ rtBack # Null
    /\ StintPlanInvariant(rtStints, rtTotal, MinLapInput)
    /\ Len(rtStints) = 3
    /\ Len(rtStops[1]) = 2
    /\ rtStops[1][2].lap = rtStops[1][1].lap + 1
    /\ rtBack[1] = rtStints

----------------------------------------------------------------------------
(* Properties of the recommender *)

C11_RankedDistinctFastest ==
    recPhase = "done" =>
      LET ss == suggested_strategies
      IN  /\ Len(ss) <= TOP_K
          /\ \A i \in 1 .. Len(ss) - 1 : ss[i].total_time <= ss[i + 1].total_time
          /\ \A i, j \in 1 .. Len(ss) : i # j => Shape(ss[i]) # Shape(ss[j])
          /\ \A i \in 1 .. Len(ss) :
                /\ [stints |-> ss[i].stints, total_time |-> ss[i].total_time]
                      \in recCandidates
                /\ \A c \in recCandidates :
                      Shape(c) = Shape(ss[i]) => ss[i].total_time <= c.total_time
                /\ recActual # Null =>
                      ss[i].delta_vs_actual = Some(ss[i].total_time - recActual[1])
          /\ \A c \in recCandidates :
                (\A i \in 1 .. Len(ss) : Shape(c) # Shape(ss[i]))
                    => /\ Len(ss) = TOP_K
                       /\ ss[Len(ss)].total_time <= c.total_time

\* TOP_K suggestions of different total times have been returned with an
\* actual result that the first one beats, and a slower candidate of the
\* first suggestion's shape was passed over
C11_Witness ==
    /\ recPhase = "done"
    /\ Len(suggested_strategies) = TOP_K
    /\ suggested_strategies[1].total_time < suggested_strategies[TOP_K].total_time
    /\ recActual # Null
    /\ suggested_strategies[1].delta_vs_actual[1] < 0
    /\ suggested_strategies[TOP_K].delta_vs_actual[1]
          > suggested_strategies[1].delta_vs_actual[1]
    /\ \E c \in recCandidates :
          /\ Shape(c) = Shape(suggested_strategies[1])
          /\ c.total_time > suggested_strategies[1].total_time

----------------------------------------------------------------------------
(* Properties of the comparison *)

RECURSIVE SumSeries(_, _)
\* the sum of the first n entries of a series
SumSeries(ts, n) == IF n = 0 THEN 0 ELSE SumSeries(ts, n - 1) + ts[n]

\* C12: the cumulative gap series has the points of laps 1, 2, ... in order,
\* never more than the shorter of the two series has laps and exactly that
\* many once the comparison returns, and the gap at lap n is the sum of the
\* simulated lap times of laps 1..n minus the sum of the actual ones.
C12_CumulativeGap ==
    /\ Len(cumulative_gap) <= ComparedLaps(cmpSim, cmpActual)
    /\ cmpPhase = "done" => Len(cumulative_gap) = ComparedLaps(cmpSim, cmpActual)
    /\ \A n \in 1 .. Len(cumulative_gap) :
          /\ cumulative_gap[n].lap = n
          /\ cumulative_gap[n].gap =
                SumSeries(cmpSim, n) - SumSeries(cmpActual[1], n)

\* a comparison has returned a gap series cut at the shorter (actual) series,
\* whose gap changes sign on the way
C12_Witness ==
    /\ cmpPhase = "done"
    /\ cmpActual # Null
    /\ Len(cmpActual[1]) < Len(cmpSim)
    /\ Len(cumulative_gap) = 2
    /\ cumulative_gap[1].gap > 0
    /\ cumulative_gap[2].gap < 0

----------------------------------------------------------------------------
(* Properties of the race-data load *)

\* C13: when the actual-strategy fetch fails the load still completes with
\* actual = null and the degradation and pit-stats answers stored, and the
\* lap count that plans are validated against is the race's real lap count
\* (the one the degradation answer carries).
C13_RealLapCountKept ==
    raceData # Null =>
        /\ raceData[1].degradation \in DegradationResponses
        /\ raceData[1].pitStats \in PitStatsResponses
        /\ raceData[1].totalLaps = raceData[1].degradation.total_laps

\* C14: after a load in which exactly one of the degradation and pit-stats
\* fetches failed, race data is stored (with the answers of the other two
\* fetches).
C14_SiblingResultsStored ==
    op \in {"fetchDegradation failed", "fetchPitStats failed"} => raceData # Null

\* C16: the race summary is never rendered from null pit stats: the view
\* does not reach a state whose render dereferences a field of null.
C16_NullPitStatsTolerated == ~ViewCrashed

----------------------------------------------------------------------------
(* Properties of the simulator, continued *)

\* C15: the result of a simulation carries a degraded-confidence flag that
\* is set if and only if at least one stint's compound lacked a model.
C15_DegradedFlagCarried ==
    phase = "done" =>
        (DegradedConfidence(SimulateResponseOf)
            <=> UsesUnmodelled(stint_plan, models))

\* C19: every emitted lap time is non-negative, being at least the
\* (non-negative) floor before the pit loss is added, whatever the model's
\* deg_rate and the stint's length; and cumulative_time never decreases from
\* one lap to the next.
C19_LapTimesNonNegative ==
    /\ [](\A n \in 1 .. Len(simulated_laps) :
            /\ simulated_laps[n].time_sec >= 0
            /\ simulated_laps[n].time_sec
                 - PitLoss(simulated_laps[n].is_pit_lap, PitLossAvg) >= MIN_LAP_TIME)
    /\ [][lap' = lap + 1 => cumulative_time' >= cumulative_time]_vars

\* a lap whose linear prediction is below zero has been emitted at the floor
C19_Witness ==
    /\ phase = "done"
    /\ \E n \in 1 .. Len(simulated_laps) :
          /\ LinearTime(stint_plan, models, n) < 0
          /\ ~simulated_laps[n].is_pit_lap
          /\ simulated_laps[n].time_sec = MIN_LAP_TIME
          /\ simulated_laps[n].tyre_life >= 3

----------------------------------------------------------------------------
(* Properties of the degradation builder and its chart *)

\* the distinct tyre ages among the clean laps of a compound
AgesOf(c) == {degLaps[c][i].tyre_age : i \in DOMAIN degLaps[c]}

\* C17: once the builder has answered, every compound with clean laps has its
\* bucket curve; a compound with fewer than two distinct tyre-age buckets has
\* a null model and is flagged as insufficient data, every other compound has
\* a model, and the response is complete (nothing is raised); DegradationChart
\* draws the data curve of every compound and a trend line for exactly the
\* compounds that have a model.
C17_NullModelNotAnError ==
    /\ degPhase \in {"fitted", "drawn"} =>
         /\ DOMAIN degCompounds = DOMAIN degLaps
         /\ DOMAIN degModels = DOMAIN degLaps
         /\ \A c \in DOMAIN degLaps :
              /\ Len(degCompounds[c].tyre_life) = Cardinality(AgesOf(c))
              /\ {degCompounds[c].tyre_life[i] :
                      i \in DOMAIN degCompounds[c].tyre_life} = AgesOf(c)
              /\ Len(degCompounds[c].avg_lap_time) = Cardinality(AgesOf(c))
              /\ IF Cardinality(AgesOf(c)) < 2
                 THEN degModels[c] = Null /\ c \in degInsufficient
                 ELSE degModels[c] # Null /\ c \notin degInsufficient
    /\ degPhase = "drawn" =>
         \A c \in DOMAIN degLaps :
              /\ <<c, "path">> \in chartDrawn
              /\ <<c, "circles">> \in chartDrawn
              /\ <<c, "trend">> \in chartDrawn <=> Cardinality(AgesOf(c)) >= 2

\* a chart drawn for one compound with a single bucket, whose curve is drawn
\* without a trend line, next to a compound that has a model and a trend line
C17_Witness ==
    /\ degPhase = "drawn"
    /\ \E c, d \in DOMAIN degLaps :
         /\ Cardinality(AgesOf(c)) = 1
         /\ degModels[c] = Null
         /\ <<c, "path">> \in chartDrawn
         /\ <<c, "trend">> \notin chartDrawn
         /\ Cardinality(AgesOf(d)) >= 2
         /\ degModels[d] # Null
         /\ <<d, "trend">> \in chartDrawn

\* the compounds whose laps cover at least two tyre ages
FittedCompounds == {c \in DOMAIN degLaps : Cardinality(AgesOf(c)) >= 2}

\* 64 units in the last place of a number of MantissaBits bits near 1/2
Tolerance == 2^(FracBits - MantissaBits + 6)

----------------------------------------------------------------------------
(* Properties of the actual-strategy extractor *)

\* the laps after which the driver's compound changes
CompoundChanges ==
    {i \in 1 .. Len(extLaps) - 1 : extLaps[i].compound # extLaps[i + 1].compound}

\* C20: the returned stints are numbered in lap order, start at the driver's
\* first lap, follow one another without gap or overlap and end at the last
\* lap; every lap of a stint is on the stint's compound and consecutive stints
\* differ in compound; laps = end_lap - start_lap + 1; pit_laps has one entry
\* per compound change of the driver's laps, the k-th between stints k and
\* k + 1 with their compounds as from/to.
C20_StintsPartitionLaps ==
    extPhase = "done" =>
        /\ Len(extStints) >= 1
        /\ extStints[1].start_lap = extLaps[1].lap_number
        /\ extStints[Len(extStints)].end_lap = extLaps[Len(extLaps)].lap_number
        /\ \A k \in DOMAIN extStints :
             /\ extStints[k].stint = k
             /\ extStints[k].start_lap <= extStints[k].end_lap
             /\ extStints[k].laps
                    = extStints[k].end_lap - extStints[k].start_lap + 1
             /\ \A i \in extStints[k].start_lap .. extStints[k].end_lap :
                    extLaps[i].compound = extStints[k].compound
        /\ \A k \in 1 .. Len(extStints) - 1 :
             /\ extStints[k + 1].start_lap = extStints[k].end_lap + 1
             /\ extStints[k + 1].compound # extStints[k].compound
        /\ Len(extPitLaps) = Cardinality(CompoundChanges)
        /\ Len(extPitLaps) = Len(extStints) - 1
        /\ \A k \in DOMAIN extPitLaps :
             /\ extPitLaps[k].from_compound = extStints[k].compound
             /\ extPitLaps[k].to_compound = extStints[k + 1].compound
             /\ extPitLaps[k].lap \in
                    {extStints[k].end_lap, extStints[k + 1].start_lap}

\* a driver with three stints, returning to the first compound in the third
C20_Witness ==
    /\ extPhase = "done"
    /\ Len(extStints) = 3
    /\ Len(extPitLaps) = 2
    /\ extStints[1].laps >= 2
    /\ extStints[3].compound = extStints[1].compound

----------------------------------------------------------------------------
(* Properties of the results shown *)

\* C21 as stated: while a response without an actual strategy is shown, the
\* summary gives no faster/slower verdict and does not say that the actual
\* strategy was better, the actual time reads N/A, and the svg of the
\* cumulative-gap chart holds no series.
C21_ComparisonOmitted ==
    (shown # Null /\ shown[1].actual = Null) =>
        /\ summary[1].verdict = "No comparison available"
        /\ summary[1].caption # "The actual strategy was better this time."
        /\ summary[1].actualTime = "N/A"
        /\ gapSvg = << >>

----------------------------------------------------------------------------
(* Properties of the planner's handlers *)

\* the list of state.stints
CurrentList == Deref(arrays, objects, propStints)

\* C22: no planner handler changes the list it was given (array 1 of the next
\* state is that list); updateStint hands on a list of the same length in
\* which stint i has the new value in the named field, its other field and
\* every other stint as before; addStint hands on the list with one stint
\* appended, removeStint the list without its last stint.
C22_PlannerDoesNotMutate ==
    [][LET given == CurrentList
           after == Deref(arrays', objects', 1)
           next == Deref(arrays', objects', propStints')
       IN  /\ after = given
           /\ planOp'.name = "updateStint" =>
                /\ planOp'.changed
                /\ propStints' # 1
                /\ Len(next) = Len(given)
                /\ \A j \in DOMAIN given :
                     j # planOp'.index => next[j] = given[j]
                /\ IF planOp'.field = "laps"
                   THEN next[planOp'.index].compound
                            = given[planOp'.index].compound
                   ELSE next[planOp'.index].laps = given[planOp'.index].laps
           /\ (planOp'.name = "addStint" /\ planOp'.changed) =>
                /\ propStints' # 1
                /\ next = Append(given, [compound |-> "HARD", laps |-> Blank])
           /\ (planOp'.name = "removeStint" /\ planOp'.changed) =>
                /\ propStints' # 1
                /\ next = SubSeq(given, 1, Len(given) - 1)
           /\ ~planOp'.changed => next = given
      ]_vars

\* updateStint has put a new list, different in one stint, next to the list
\* it was given
C22_Witness ==
    /\ planOp.name = "updateStint"
    /\ propStints = 2
    /\ Len(arrays[1]) = 3
    /\ \E i \in DOMAIN arrays[1] :
         /\ objects[arrays[1][i]] # objects[arrays[2][i]]
         /\ \A j \in DOMAIN arrays[1] : j # i => arrays[1][j] = arrays[2][j]

\* C23: the planner always holds between 2 and MAX_STINTS stints, that is 1
\* to 4 pit stops; addStint at MAX_STINTS stints and removeStint at 2 stints
\* hand nothing to onChange and leave the list as it is.
C23_StintCountBounded ==
    /\ [](/\ Len(CurrentList) >= 2
          /\ Len(CurrentList) <= MAX_STINTS
          /\ Len(CurrentList) - 1 \in 1 .. 4)
    /\ [][/\ (planOp'.name = "addStint" /\ Len(CurrentList) = MAX_STINTS) =>
                (~planOp'.changed /\ CurrentList' = CurrentList)
          /\ (planOp'.name = "removeStint" /\ Len(CurrentList) = 2) =>
                (~planOp'.changed /\ CurrentList' = CurrentList)
          /\ (planOp'.name = "addStint" /\ Len(CurrentList) < MAX_STINTS) =>
                Len(CurrentList') = Len(CurrentList) + 1
          /\ (planOp'.name = "removeStint" /\ Len(CurrentList) > 2) =>
                Len(CurrentList') = Len(CurrentList) - 1
         ]_vars

\* addStint called on a plan of MAX_STINTS stints
C23_Witness ==
    /\ planOp.name = "addStint"
    /\ ~planOp.changed
    /\ Len(CurrentList) = MAX_STINTS

----------------------------------------------------------------------------
(* Properties of the strategy view under interleavings *)

\* C24 as stated: whenever a simulation is stored, it is the response to a
\* request made with exactly the stints now in the planner.
C24_ResultMatchesPlan ==
    simulation # Null => simulation[1].stints = ValidStints(stints)

\* C25 as stated: every simulate request in flight carries the driver for
\* which the race data held in raceData were loaded.
C25_RequestForLoadedSelection ==
    \A i \in DOMAIN simRequests :
        /\ raceData # Null
        /\ simRequests[i].driver = raceData[1].loadedFor.driver

\* C29: simulating is true exactly while a simulate request is in flight and
\* at most one is in flight; the step that sends a request sets the flag, the
\* step in which a request settles clears it, and a failed request sets the
\* error message and leaves the stored simulation as it was.
C29_SimulatingWhileInFlight ==
    /\ [](simulating <=> simRequests # << >>)
    /\ [](Len(simRequests) <= 1)
    /\ [][/\ Len(simRequests') > Len(simRequests) =>
                (~simulating /\ simulating' /\ op' = "handleSimulate")
          /\ Len(simRequests') < Len(simRequests) =>
                (simulating /\ ~simulating'
                 /\ op' \in {"SET_SIMULATION", "simulateFailed"})
          /\ op' = "simulateFailed" =>
                (error' = ErrRequest /\ simulation' = simulation)
          /\ op' = "SET_SIMULATION" => simulation' # Null
         ]_vars

\* a second request has failed: the flag is cleared, the error is shown and
\* the result of the first request is still stored
C29_Witness ==
    /\ op = "simulateFailed"
    /\ ~simulating
    /\ simRequests = << >>
    /\ error = ErrRequest
    /\ simulation # Null

----------------------------------------------------------------------------
(* Properties of the session selection *)

\* the fetchRaces promises whose response would still be applied
LiveRaceFetches == {f \in raceFetches : ~f.cancelled}

\* C26: races is only ever set from the response to the request of the year
\* now selected; at most one fetchRaces promise is not cancelled, it is the
\* one of the selected year, and loadingRaces is true exactly while it is
\* pending.
C26_StaleRacesNeverApplied ==
    /\ [](/\ Cardinality(LiveRaceFetches) <= 1
          /\ \A f \in LiveRaceFetches : f.year = year
          /\ loadingRaces <=> LiveRaceFetches # {}
          /\ racesFrom # 0 => races = Calendar(racesFrom))
    /\ [][(races' # races \/ racesFrom' # racesFrom) =>
              /\ year' = year
              /\ racesFrom' = year
              /\ races' = Calendar(year)
              /\ ~loadingRaces'
         ]_vars

\* the response for 2024 arrived after 2023 was selected and its list
\* applied: it was dropped
C26_Witness ==
    /\ selections = 1
    /\ year = 2023
    /\ sessOp = "racesIgnored"
    /\ racesFrom = 2023
    /\ races = Calendar(2023)
    /\ race = "Bahrain"
    /\ raceFetches = {}
    /\ ~loadingRaces

\* a fetchDrivers request for the selected year and race is awaited
DriversAwaited == \E f \in driverFetches : f.year = year /\ f.race = race

\* C28 as stated: when a driver list has just been stored and no request for
\* the selected year and race is awaited any more, the list stored is the
\* one of the selected year and race.
C28_DriversOfSelection ==
    (sessOp = "SET_DRIVERS" /\ ~DriversAwaited) =>
        drivers = DriversOf(year, race)

\* the selected race is in the list applied for the selected year
RaceInAppliedList ==
    (racesFrom = year /\ races # << >>) => race \in Names(races)

\* C30 as stated: once a non-empty list is applied for the selected year the
\* selected race is in it, and every drivers request in flight names a race
\* of the calendar of the year it names.
C30_RaceOfSelectedYear ==
    /\ RaceInAppliedList
    /\ \A f \in driverFetches : f.race \in Names(Calendar(f.year))

----------------------------------------------------------------------------
(* Properties of TelemetryView *)

\* a fetchTelemetry promise whose finally would clear loading is pending
TelemetryAwaited == \E f \in telemetryFetches : ~f.cancelled

\* C27 as stated: loading is true only while a telemetry request that has
\* not been cancelled is awaited; with the selection empty, or once the last
\* such request has settled, the flag is false.
C27_LoadingOnlyWhileAwaited == tvLoading => TelemetryAwaited

====
